---- MODULE Spec2Model ----
(***************************************************************************)
(* State-machine model of the institutional 13F tracker of TradeTitan      *)
(* (src/datafetcher/institutional_tracker.py and                           *)
(* src/datafetcher/simplified_institutional.py) and of its scheduler       *)
(* (src/datafetcher/scheduler.py).                                         *)
(*                                                                         *)
(* The entry points are modelled, each with its own specification:         *)
(*   SpecCrawl    get_historical_13f_filings(cik, start_year, end_year)    *)
(*   SpecCascade  parse_13f_holdings(cik, accession_number, tickers)       *)
(*   SpecRun      get_historical_holdings_for_ticker(ticker)               *)
(*   SpecSummary  the sorted table handed to _create_historical_summary    *)
(*                or _create_yearly_summary                                *)
(*   SpecRepair   the entity repair of _parse_xml_info_table               *)
(*   SpecLookup   the lookups in the roster of tickers and CUSIPs          *)
(*   SpecScheduler  scheduler.main()                                       *)
(*   SpecTrack    track_major_institutions(output_dir, target_tickers),    *)
(*                the historical run over the target tickers and the       *)
(*                tracking file written after it, called directly or by    *)
(*                fetch_and_save_institutional_data(tickers, output_dir)   *)
(*   SpecDataset  create_comprehensive_institutional_dataset(tickers,      *)
(*                output_dir) and create_institutional_timeline(ticker)    *)
(*                of SimplifiedInstitutionalTracker                        *)
(* The archive host is the environment: every HTTP request ends with a     *)
(* 200 response carrying a document, a non-200 response, or a raised       *)
(* exception, chosen nondeterministically.                                 *)
(*                                                                         *)
(* Representation choices:                                                 *)
(*   - a text string is a sequence of one-character strings;               *)
(*   - an ISO date 'YYYY-MM-DD' is the triple <<YYYY, MM, DD>>; Python's   *)
(*     string comparison of zero-padded ISO dates is the lexicographic     *)
(*     comparison of the triples;                                          *)
(*   - a Python float is a record [neg, m, e]: the binary64 number         *)
(*     m * 2^e with m odd, negated when neg; the natural number m is a     *)
(*     sequence of base-2^15 digits, least significant first.              *)
(***************************************************************************)
EXTENDS Integers, Sequences, FiniteSets, TLC

VARIABLES
    entry,          \* the entry point the caller invoked
    archive,        \* the content of the archive host during a historical run
    tracker,        \* the class whose crawler runs
    now_year,       \* datetime.now().year
    pc,             \* control location
    cik,            \* get_historical_13f_filings: cik argument
    start_year,     \* get_historical_13f_filings: start_year argument
    end_year,       \* get_historical_13f_filings: end_year argument
    years_back,     \* get_comprehensive_13f_history: years_back argument
    files,          \* archived_files: the shard references of the index
    file_idx,       \* position of the shard loop (1-based)
    all_filings,    \* all_filings accumulator of the crawl
    crawl_result,   \* value returned by the crawl (<<>> before it returns)
    accession_number, \* parse_13f_holdings: accession_number argument
    tickers_arg,    \* parse_13f_holdings: target_tickers argument (<<>> for None)
    strategy,       \* the strategy of the cascade about to run (1, 2, 3)
    holdings,       \* parse_13f_holdings: local variable holdings
    parse_outcome,  \* "none", "returned" or "raised": how the cascade ended
    parse_result,   \* value returned by the cascade
    cascade_log,    \* history: one record per document requested by the cascade
    response,       \* parse_13f_holdings: the last response received
    holdings_df,    \* the table (DataFrame) being summarised, row by row
    summary_data,   \* the list of yearly summaries returned
    run_ticker,     \* get_historical_holdings_for_ticker: ticker argument
    inst_idx,       \* position of the loop over the selected institutions
    filings_to_process, \* filings_to_process[:50] of the current institution
    filing_idx,     \* position of the loop over the filings to process
    all_historical_holdings, \* accumulator of the run
    visited,        \* history: the institutions crawled so far, in order
    run_log,        \* history: one record per cascade call made for the
                    \*          current institution
    index_log,      \* history: outcome of the index request and recent list served
    shard_log,      \* history: one record per shard request issued
    requested,      \* history: TRUE iff a request was sent to the archive host
    slept,          \* history: TRUE iff time.sleep ran since the last request
    unthrottled,    \* history: TRUE iff some request followed the previous
                    \*          request with no time.sleep between them
    xml_content,    \* _parse_xml_info_table: xml_content argument, then the
                    \*          repaired text
    repair_log,     \* history: the text before and after each repair
    lookup_query,   \* the ticker and the CUSIP a caller looks up
    lookup_resolved, \* what the two lookups returned
    lookup_back,    \* what the lookups of the returned values returned
    track_tickers,  \* track_major_institutions: target_tickers argument
    ticker_idx,     \* position of the loop over the target tickers
    disk,           \* the files of output_dir, per ticker
    track_log,      \* history: per ticker done, the holdings its run returned
    institution_idx, \* position of the loop over the first institutions
    institution_data, \* track_major_institutions: institution_data
    tracking_file,  \* major_institutions_tracking.csv of output_dir
    institution_df, \* the table being written to it: combined_df or
                    \*          institution_df
    ticker_list,    \* fetch_and_save_institutional_data and
                    \*          create_comprehensive_institutional_dataset:
                    \*          tickers argument
    tickers_idx,    \* position of the loop over tickers
    phase,          \* the part of the dataset being created: "current",
                    \*          "timeline" or "analysis" ("none" elsewhere)
    major_idx,      \* position of the loop over self.major_institutions
    smart_money_summary, \* fetch_and_save_institutional_data: smart_money_summary
    current_data,   \* get_current_institutional_data: current_data
    timeline_data,  \* create_institutional_timeline: timeline_data
    institution_analysis, \* _create_institution_analysis: institution_analysis
    output_dir,     \* the other files of output_dir
    day_of_week,    \* scheduler.main: current_time.weekday()
    hour,           \* scheduler.main: current_time.hour
    existing,       \* the script paths for which os.path.exists is true
    flaky,          \* the scripts whose launch or child process may fail
    batch,          \* "none", "daily" or "weekly": the batch being run
    script_idx,     \* position of the loop over the scripts of the batch
    successful_runs, \* successful_runs of the batch being run
    daily_success,  \* scheduler.main: daily_success
    cwd,            \* the working directory of the scheduler process
    original_cwd,   \* run_fetch_script: original_cwd
    sched_log       \* history: one record per script the batch loops reached

crawlVars == <<tracker, now_year, cik, start_year, end_year, years_back, files, file_idx, all_filings,
               crawl_result, index_log, shard_log>>
cascadeVars == <<accession_number, tickers_arg, strategy, holdings, parse_outcome,
                 parse_result, cascade_log, response>>
summaryVars == <<holdings_df, summary_data>>
runVars == <<run_ticker, inst_idx, filings_to_process, filing_idx,
             all_historical_holdings, visited, run_log>>
netVars == <<requested, slept, unthrottled>>
repairVars == <<xml_content, repair_log>>
lookupVars == <<lookup_query, lookup_resolved, lookup_back>>
schedVars == <<day_of_week, hour, existing, flaky, batch, script_idx, successful_runs,
               daily_success, cwd, original_cwd, sched_log>>
\* The variables of the entry points that never touch the archive.
utilityVars == <<repairVars, lookupVars, schedVars>>
datasetVars == <<ticker_list, tickers_idx, phase, major_idx, smart_money_summary, current_data,
                 timeline_data, institution_analysis, output_dir>>
trackingVars == <<track_tickers, ticker_idx, disk, track_log, institution_idx,
                  institution_data, tracking_file, institution_df>>
trackVars == <<trackingVars, datasetVars>>
vars == <<entry, archive, pc, crawlVars, cascadeVars, runVars, netVars, summaryVars,
          utilityVars, trackVars>>

----------------------------------------------------------------------------
(* Bounds of the model *)

MaxEntries == 1     \* entries of one filing list served to the crawl harness
MaxShards == 2      \* shard references of one index document
MaxTags == 2        \* holding tags of one XML document served to the cascade harness
MaxLines == 2       \* lines of one full-text document served to the cascade harness
MaxBulkRecent == 21 \* holdings reports of the recent list of a bulk archive
MaxBulkOlder == 121 \* holdings reports of one shard of a bulk archive

----------------------------------------------------------------------------
(* Generic helpers *)

RECURSIVE SeqsUpTo(_, _)
SeqsUpTo(S, n) ==
    IF n = 0 THEN {<<>>}
    ELSE LET shorter == SeqsUpTo(S, n - 1)
         IN shorter \cup {Append(s, x) : s \in {t \in shorter : Len(t) = n - 1}, x \in S}

----------------------------------------------------------------------------
(* Filing index data: the JSON of the submissions endpoint *)

HoldingsReportForm == "13F-HR"
Forms == {"13F-HR", "10-K"}
Dates == {<<2019, 11, 14>>, <<2021, 2, 12>>}

\* ISO dates compare as strings: lexicographic on year, month, day.
DateLess(a, b) ==
    \/ a[1] < b[1]
    \/ a[1] = b[1] /\ a[2] < b[2]
    \/ a[1] = b[1] /\ a[2] = b[2] /\ a[3] < b[3]

\* int(filing_date.split('-')[0])
FilingYear(filing_date) == filing_date[1]

\* The accession number the archive lists at position i of list src of an
\* institution (src = 0: the recent list, src = k: shard k); unique per filing.
Accession(c, src, i) == <<c, src, i>>

\* A filing list as the archive serves it: three parallel arrays.
FilingData(c, src, entries) ==
    [form            |-> [i \in 1..Len(entries) |-> entries[i][1]],
     accessionNumber |-> [i \in 1..Len(entries) |-> Accession(c, src, i)],
     filingDate      |-> [i \in 1..Len(entries) |-> entries[i][2]]]

NoData == [form |-> <<>>, accessionNumber |-> <<>>, filingDate |-> <<>>]

CrawlEntryLists == SeqsUpTo(Forms \X Dates, MaxEntries)

Repeat(n, x) == [i \in 1..n |-> x]

\* The filing lists the archive serves during a whole historical run.
\* A sparse archive has a recent list with at most one holdings report of
\* 2021 and shards that each list one holdings report of 2019; a bulk archive
\* has MaxBulkRecent reports of 2021 in the recent list and MaxBulkOlder
\* reports of 2019 in its one shard; a thin archive lists filings like a
\* sparse one, but only for the first institution of the roster, and has no
\* index for the others; an archive that is down has no index at all.
RunEntryLists(src) ==
    IF archive = "bulk"
    THEN IF src = 0
         THEN {Repeat(MaxBulkRecent, <<"13F-HR", <<2021, 2, 12>>>>)}
         ELSE {Repeat(MaxBulkOlder, <<"13F-HR", <<2019, 11, 14>>>>)}
    ELSE IF src = 0
         THEN {<<>>, <<<<"13F-HR", <<2021, 2, 12>>>>>>}
         ELSE {<<<<"13F-HR", <<2019, 11, 14>>>>>>}

\* A shard reference (file_info) is the set of the keys of its JSON object:
\* the archive's references carry 'name' (the shard is then named after its
\* position in the list); a malformed index may list a reference without it.
NamedShard == {"name"}
NamelessShard == {}
\* 'name' in file_info, the condition under which file_info['name'] evaluates
HasName(file_info) == "name" \in file_info

\* The lists of shard references an index may carry under filings.files.
\* The crawl harness is served every list of named and nameless references;
\* during a historical run a malformed index carries one nameless reference.
ListedShards ==
    IF archive = "bulk" THEN {<<NamedShard>>}
    ELSE IF entry = "crawl" THEN SeqsUpTo({NamedShard, NamelessShard}, MaxShards)
    ELSE IF archive = "thin" THEN {<<>>, <<NamedShard>>, <<NamelessShard>>}
    ELSE SeqsUpTo({NamedShard}, MaxShards) \cup {<<NamelessShard>>}

\* The filing lists the archive may serve as list src of institution c.

\* The institutions a thin archive has an index for.
ThinCiks == {"0001067983"}

\* The entry points that crawl the institutions of a roster one after the
\* other: the historical runs and the dataset of the simplified tracker.
TrackEntries == {"track", "fetch"}
DatasetEntries == {"dataset", "timeline"}
HistoricalEntries == {"run"} \cup TrackEntries \cup DatasetEntries

ServedLists(c, src) ==
    {FilingData(c, src, es) :
        es \in IF entry \in HistoricalEntries
               THEN (IF archive = "down" \/ (archive = "thin" /\ c \notin ThinCiks) THEN {}
                     ELSE RunEntryLists(src))
               ELSE CrawlEntryLists}

\* The (start_year, end_year) arguments passed to get_historical_13f_filings
\* and the years_back arguments passed to get_comprehensive_13f_history.
CrawlYearRanges == {<<2020, 2021>>, <<2005, 2019>>}
CrawlYearsBack == {1, 20}
ClockYears == {2021}
CrawlCiks == {"0001067983"}

----------------------------------------------------------------------------
(* _process_filing_data *)

IsHoldingsReport(form) == form = HoldingsReportForm

InYearRangeNoUpper(filing_year, sy, ey) == sy <= filing_year

InYearRange(filing_year, sy, ey) == sy <= filing_year /\ filing_year <= ey

ProcessFilingData(filing_data, sy, ey) ==
    LET forms == filing_data.form
        Entry(i) ==
            LET filing_date == filing_data.filingDate[i]
            IN [accession_number |-> filing_data.accessionNumber[i],
                filing_date      |-> filing_date,
                form             |-> forms[i],
                filing_year      |-> FilingYear(filing_date)]
        Kept(i) ==
            /\ IsHoldingsReport(forms[i])
            /\ InYearRange(FilingYear(filing_data.filingDate[i]), sy, ey)
        kept == SelectSeq([i \in 1..Len(forms) |-> i], Kept)
    IN [k \in 1..Len(kept) |-> Entry(kept[k])]

----------------------------------------------------------------------------
(* _extract_13f_filings (SimplifiedInstitutionalTracker) *)

FilingQuarterOfThirds(filing_date) ==
    <<"Q1", "Q2", "Q3", "Q4">>[((filing_date[2] - 1) \div 4) + 1]

\* f"Q{((int(filing_date.split('-')[1]) - 1) // 3) + 1}"
FilingQuarter(filing_date) ==
    <<"Q1", "Q2", "Q3", "Q4">>[((filing_date[2] - 1) \div 3) + 1]

Extract13FFilings(filing_data, yb, now) ==
    LET cutoff_year == now - yb
        forms == filing_data.form
        Entry(i) ==
            LET filing_date == filing_data.filingDate[i]
            IN [accession_number |-> filing_data.accessionNumber[i],
                filing_date      |-> filing_date,
                form             |-> forms[i],
                filing_year      |-> FilingYear(filing_date),
                filing_quarter   |-> FilingQuarter(filing_date)]
        Kept(i) ==
            /\ IsHoldingsReport(forms[i])
            /\ FilingYear(filing_data.filingDate[i]) >= cutoff_year
        kept == SelectSeq([i \in 1..Len(forms) |-> i], Kept)
    IN [k \in 1..Len(kept) |-> Entry(kept[k])]

\* The filter the running crawler applies to one served filing list.
FilterFilings(filing_data) ==
    IF tracker = "InstitutionalTracker"
    THEN ProcessFilingData(filing_data, start_year, end_year)
    ELSE Extract13FFilings(filing_data, years_back, now_year)

----------------------------------------------------------------------------
(* all_filings.sort(key=lambda x: x['filing_date'], reverse=True) *)

SortsBeforeAscending(a, b) == DateLess(a.filing_date, b.filing_date)

\* TRUE iff a is placed before b when their keys differ.
SortsBefore(a, b) == DateLess(b.filing_date, a.filing_date)

\* The stable sort: an element comes before another when its key sorts
\* before the other's, or when neither key sorts before the other and it
\* stood before the other in the list.
SortFilings(s) ==
    LET n == Len(s)
        Precedes(i, j) ==
            \/ SortsBefore(s[i], s[j])
            \/ ~SortsBefore(s[j], s[i]) /\ i < j
        rank == [i \in 1..n |-> Cardinality({j \in 1..n : Precedes(j, i)}) + 1]
    IN [k \in 1..n |-> s[CHOOSE i \in 1..n : rank[i] = k]]

----------------------------------------------------------------------------
(* Text: strings as sequences of one-character strings *)

UpperLetters == <<"A","B","C","D","E","F","G","H","I","J","K","L","M",
                  "N","O","P","Q","R","S","T","U","V","W","X","Y","Z">>
LowerLetters == <<"a","b","c","d","e","f","g","h","i","j","k","l","m",
                  "n","o","p","q","r","s","t","u","v","w","x","y","z">>
DigitChars == <<"0","1","2","3","4","5","6","7","8","9">>
HexDigits == <<"0","1","2","3","4","5","6","7","8","9","a","b","c","d","e","f">>
\* The printable characters of ASCII, from ' ' (code point 32) to '~' (126);
\* the grave accent, which no string of the module can hold, goes by the
\* name of its code point.
Printable ==
    <<" ", "!", "\"", "#", "$", "%", "&", "'", "(", ")", "*", "+", ",", "-", ".", "/",
      "0", "1", "2", "3", "4", "5", "6", "7", "8", "9", ":", ";", "<", "=", ">", "?",
      "@", "A", "B", "C", "D", "E", "F", "G", "H", "I", "J", "K", "L", "M", "N", "O",
      "P", "Q", "R", "S", "T", "U", "V", "W", "X", "Y", "Z", "[", "\\", "]", "^", "_",
      "\\x60", "a", "b", "c", "d", "e", "f", "g", "h", "i", "j", "k", "l", "m", "n", "o",
      "p", "q", "r", "s", "t", "u", "v", "w", "x", "y", "z", "{", "|", "}", "~">>

Range(s) == {s[i] : i \in 1..Len(s)}

\* Concatenation of a sequence of sequences
RECURSIVE Concat(_)
Concat(ss) == IF ss = <<>> THEN <<>> ELSE Head(ss) \o Concat(Tail(ss))

\* A character is a string: the character itself for printable ASCII and
\* for tab, line feed, form feed and carriage return, and for any other
\* character the name Python's repr gives its code point: a backslash, then
\* x and two, u and four or U and eight hexadecimal digits ('\xe9',
\* '\u0663', '\U0001d7ce').
NoCodePoint == -1
HexVal(h) ==
    IF \E i \in 1..16 : HexDigits[i] = h
    THEN (CHOOSE i \in 1..16 : HexDigits[i] = h) - 1
    ELSE IF \E i \in 11..16 : UpperLetters[i - 10] = h
    THEN (CHOOSE i \in 11..16 : UpperLetters[i - 10] = h) - 1
    ELSE NoCodePoint
\* int(c[i:], 16), n the number of the digits before position i
RECURSIVE HexNumber(_, _, _)
HexNumber(c, i, n) ==
    IF i > Len(c) \/ n = NoCodePoint THEN n
    ELSE HexNumber(c, i + 1,
                   IF HexVal(SubSeq(c, i, i)) = NoCodePoint THEN NoCodePoint
                   ELSE 16 * n + HexVal(SubSeq(c, i, i)))

PrintableCodePoint ==
    [c \in {Printable[i] : i \in {j \in 1..Len(Printable) : Len(Printable[j]) = 1}} |->
        31 + (CHOOSE i \in 1..Len(Printable) : Printable[i] = c)]
\* ord(c); NoCodePoint for a string that names no character
CodePoint(c) ==
    IF Len(c) = 1
    THEN CASE c = "\t" -> 9
           [] c = "\n" -> 10
           [] c = "\f" -> 12
           [] c = "\r" -> 13
           [] OTHER -> IF c \in DOMAIN PrintableCodePoint
                       THEN PrintableCodePoint[c]
                       ELSE NoCodePoint
    ELSE IF /\ Len(c) \in {4, 6, 10}
            /\ SubSeq(c, 1, 1) = "\\"
            /\ SubSeq(c, 2, 2) = (CASE Len(c) = 4 -> "x" [] Len(c) = 6 -> "u" [] OTHER -> "U")
         THEN HexNumber(c, 3, 0)
         ELSE NoCodePoint

\* n in hexadecimal, w digits wide
RECURSIVE Hex(_, _)
Hex(n, w) == IF w = 0 THEN "" ELSE Hex(n \div 16, w - 1) \o HexDigits[(n % 16) + 1]

\* chr(cp) for a character that is the lowercase or the uppercase of another
CharOf(cp) ==
    IF cp >= 32 /\ cp <= 126 THEN Printable[cp - 31]
    ELSE IF cp < 256 THEN "\\x" \o Hex(cp, 2)
    ELSE IF cp < 65536 THEN "\\u" \o Hex(cp, 4)
    ELSE "\\U" \o Hex(cp, 8)

\* The tables below are those of the Unicode database of the interpreter
\* (Unicode 14.0), as ranges <<first, last>> of code points.
InRanges(cp, ranges) == \E i \in 1..Len(ranges) : ranges[i][1] <= cp /\ cp <= ranges[i][2]

\* The decimal digits (category Nd): each range holds the digits 0 to 9 in
\* order, once or several times. These are the characters \d matches and
\* float() reads.
DecimalRanges ==
    <<<<48, 57>>, <<1632, 1641>>, <<1776, 1785>>, <<1984, 1993>>,
      <<2406, 2415>>, <<2534, 2543>>, <<2662, 2671>>, <<2790, 2799>>,
      <<2918, 2927>>, <<3046, 3055>>, <<3174, 3183>>, <<3302, 3311>>,
      <<3430, 3439>>, <<3558, 3567>>, <<3664, 3673>>, <<3792, 3801>>,
      <<3872, 3881>>, <<4160, 4169>>, <<4240, 4249>>, <<6112, 6121>>,
      <<6160, 6169>>, <<6470, 6479>>, <<6608, 6617>>, <<6784, 6793>>,
      <<6800, 6809>>, <<6992, 7001>>, <<7088, 7097>>, <<7232, 7241>>,
      <<7248, 7257>>, <<42528, 42537>>, <<43216, 43225>>, <<43264, 43273>>,
      <<43472, 43481>>, <<43504, 43513>>, <<43600, 43609>>, <<44016, 44025>>,
      <<65296, 65305>>, <<66720, 66729>>, <<68912, 68921>>, <<69734, 69743>>,
      <<69872, 69881>>, <<69942, 69951>>, <<70096, 70105>>, <<70384, 70393>>,
      <<70736, 70745>>, <<70864, 70873>>, <<71248, 71257>>, <<71360, 71369>>,
      <<71472, 71481>>, <<71904, 71913>>, <<72016, 72025>>, <<72784, 72793>>,
      <<73040, 73049>>, <<73120, 73129>>, <<92768, 92777>>, <<92864, 92873>>,
      <<93008, 93017>>, <<120782, 120831>>, <<123200, 123209>>,
      <<123632, 123641>>, <<125264, 125273>>, <<130032, 130041>>>>

\* The characters \w matches: str.isalnum() and '_'
WordRanges ==
    <<<<48, 57>>, <<65, 90>>, <<95, 95>>, <<97, 122>>, <<170, 170>>,
      <<178, 179>>, <<181, 181>>, <<185, 186>>, <<188, 190>>, <<192, 214>>,
      <<216, 246>>, <<248, 705>>, <<710, 721>>, <<736, 740>>, <<748, 748>>,
      <<750, 750>>, <<880, 884>>, <<886, 887>>, <<890, 893>>, <<895, 895>>,
      <<902, 902>>, <<904, 906>>, <<908, 908>>, <<910, 929>>, <<931, 1013>>,
      <<1015, 1153>>, <<1162, 1327>>, <<1329, 1366>>, <<1369, 1369>>,
      <<1376, 1416>>, <<1488, 1514>>, <<1519, 1522>>, <<1568, 1610>>,
      <<1632, 1641>>, <<1646, 1647>>, <<1649, 1747>>, <<1749, 1749>>,
      <<1765, 1766>>, <<1774, 1788>>, <<1791, 1791>>, <<1808, 1808>>,
      <<1810, 1839>>, <<1869, 1957>>, <<1969, 1969>>, <<1984, 2026>>,
      <<2036, 2037>>, <<2042, 2042>>, <<2048, 2069>>, <<2074, 2074>>,
      <<2084, 2084>>, <<2088, 2088>>, <<2112, 2136>>, <<2144, 2154>>,
      <<2160, 2183>>, <<2185, 2190>>, <<2208, 2249>>, <<2308, 2361>>,
      <<2365, 2365>>, <<2384, 2384>>, <<2392, 2401>>, <<2406, 2415>>,
      <<2417, 2432>>, <<2437, 2444>>, <<2447, 2448>>, <<2451, 2472>>,
      <<2474, 2480>>, <<2482, 2482>>, <<2486, 2489>>, <<2493, 2493>>,
      <<2510, 2510>>, <<2524, 2525>>, <<2527, 2529>>, <<2534, 2545>>,
      <<2548, 2553>>, <<2556, 2556>>, <<2565, 2570>>, <<2575, 2576>>,
      <<2579, 2600>>, <<2602, 2608>>, <<2610, 2611>>, <<2613, 2614>>,
      <<2616, 2617>>, <<2649, 2652>>, <<2654, 2654>>, <<2662, 2671>>,
      <<2674, 2676>>, <<2693, 2701>>, <<2703, 2705>>, <<2707, 2728>>,
      <<2730, 2736>>, <<2738, 2739>>, <<2741, 2745>>, <<2749, 2749>>,
      <<2768, 2768>>, <<2784, 2785>>, <<2790, 2799>>, <<2809, 2809>>,
      <<2821, 2828>>, <<2831, 2832>>, <<2835, 2856>>, <<2858, 2864>>,
      <<2866, 2867>>, <<2869, 2873>>, <<2877, 2877>>, <<2908, 2909>>,
      <<2911, 2913>>, <<2918, 2927>>, <<2929, 2935>>, <<2947, 2947>>,
      <<2949, 2954>>, <<2958, 2960>>, <<2962, 2965>>, <<2969, 2970>>,
      <<2972, 2972>>, <<2974, 2975>>, <<2979, 2980>>, <<2984, 2986>>,
      <<2990, 3001>>, <<3024, 3024>>, <<3046, 3058>>, <<3077, 3084>>,
      <<3086, 3088>>, <<3090, 3112>>, <<3114, 3129>>, <<3133, 3133>>,
      <<3160, 3162>>, <<3165, 3165>>, <<3168, 3169>>, <<3174, 3183>>,
      <<3192, 3198>>, <<3200, 3200>>, <<3205, 3212>>, <<3214, 3216>>,
      <<3218, 3240>>, <<3242, 3251>>, <<3253, 3257>>, <<3261, 3261>>,
      <<3293, 3294>>, <<3296, 3297>>, <<3302, 3311>>, <<3313, 3314>>,
      <<3332, 3340>>, <<3342, 3344>>, <<3346, 3386>>, <<3389, 3389>>,
      <<3406, 3406>>, <<3412, 3414>>, <<3416, 3425>>, <<3430, 3448>>,
      <<3450, 3455>>, <<3461, 3478>>, <<3482, 3505>>, <<3507, 3515>>,
      <<3517, 3517>>, <<3520, 3526>>, <<3558, 3567>>, <<3585, 3632>>,
      <<3634, 3635>>, <<3648, 3654>>, <<3664, 3673>>, <<3713, 3714>>,
      <<3716, 3716>>, <<3718, 3722>>, <<3724, 3747>>, <<3749, 3749>>,
      <<3751, 3760>>, <<3762, 3763>>, <<3773, 3773>>, <<3776, 3780>>,
      <<3782, 3782>>, <<3792, 3801>>, <<3804, 3807>>, <<3840, 3840>>,
      <<3872, 3891>>, <<3904, 3911>>, <<3913, 3948>>, <<3976, 3980>>,
      <<4096, 4138>>, <<4159, 4169>>, <<4176, 4181>>, <<4186, 4189>>,
      <<4193, 4193>>, <<4197, 4198>>, <<4206, 4208>>, <<4213, 4225>>,
      <<4238, 4238>>, <<4240, 4249>>, <<4256, 4293>>, <<4295, 4295>>,
      <<4301, 4301>>, <<4304, 4346>>, <<4348, 4680>>, <<4682, 4685>>,
      <<4688, 4694>>, <<4696, 4696>>, <<4698, 4701>>, <<4704, 4744>>,
      <<4746, 4749>>, <<4752, 4784>>, <<4786, 4789>>, <<4792, 4798>>,
      <<4800, 4800>>, <<4802, 4805>>, <<4808, 4822>>, <<4824, 4880>>,
      <<4882, 4885>>, <<4888, 4954>>, <<4969, 4988>>, <<4992, 5007>>,
      <<5024, 5109>>, <<5112, 5117>>, <<5121, 5740>>, <<5743, 5759>>,
      <<5761, 5786>>, <<5792, 5866>>, <<5870, 5880>>, <<5888, 5905>>,
      <<5919, 5937>>, <<5952, 5969>>, <<5984, 5996>>, <<5998, 6000>>,
      <<6016, 6067>>, <<6103, 6103>>, <<6108, 6108>>, <<6112, 6121>>,
      <<6128, 6137>>, <<6160, 6169>>, <<6176, 6264>>, <<6272, 6276>>,
      <<6279, 6312>>, <<6314, 6314>>, <<6320, 6389>>, <<6400, 6430>>,
      <<6470, 6509>>, <<6512, 6516>>, <<6528, 6571>>, <<6576, 6601>>,
      <<6608, 6618>>, <<6656, 6678>>, <<6688, 6740>>, <<6784, 6793>>,
      <<6800, 6809>>, <<6823, 6823>>, <<6917, 6963>>, <<6981, 6988>>,
      <<6992, 7001>>, <<7043, 7072>>, <<7086, 7141>>, <<7168, 7203>>,
      <<7232, 7241>>, <<7245, 7293>>, <<7296, 7304>>, <<7312, 7354>>,
      <<7357, 7359>>, <<7401, 7404>>, <<7406, 7411>>, <<7413, 7414>>,
      <<7418, 7418>>, <<7424, 7615>>, <<7680, 7957>>, <<7960, 7965>>,
      <<7968, 8005>>, <<8008, 8013>>, <<8016, 8023>>, <<8025, 8025>>,
      <<8027, 8027>>, <<8029, 8029>>, <<8031, 8061>>, <<8064, 8116>>,
      <<8118, 8124>>, <<8126, 8126>>, <<8130, 8132>>, <<8134, 8140>>,
      <<8144, 8147>>, <<8150, 8155>>, <<8160, 8172>>, <<8178, 8180>>,
      <<8182, 8188>>, <<8304, 8305>>, <<8308, 8313>>, <<8319, 8329>>,
      <<8336, 8348>>, <<8450, 8450>>, <<8455, 8455>>, <<8458, 8467>>,
      <<8469, 8469>>, <<8473, 8477>>, <<8484, 8484>>, <<8486, 8486>>,
      <<8488, 8488>>, <<8490, 8493>>, <<8495, 8505>>, <<8508, 8511>>,
      <<8517, 8521>>, <<8526, 8526>>, <<8528, 8585>>, <<9312, 9371>>,
      <<9450, 9471>>, <<10102, 10131>>, <<11264, 11492>>, <<11499, 11502>>,
      <<11506, 11507>>, <<11517, 11517>>, <<11520, 11557>>, <<11559, 11559>>,
      <<11565, 11565>>, <<11568, 11623>>, <<11631, 11631>>, <<11648, 11670>>,
      <<11680, 11686>>, <<11688, 11694>>, <<11696, 11702>>, <<11704, 11710>>,
      <<11712, 11718>>, <<11720, 11726>>, <<11728, 11734>>, <<11736, 11742>>,
      <<11823, 11823>>, <<12293, 12295>>, <<12321, 12329>>, <<12337, 12341>>,
      <<12344, 12348>>, <<12353, 12438>>, <<12445, 12447>>, <<12449, 12538>>,
      <<12540, 12543>>, <<12549, 12591>>, <<12593, 12686>>, <<12690, 12693>>,
      <<12704, 12735>>, <<12784, 12799>>, <<12832, 12841>>, <<12872, 12879>>,
      <<12881, 12895>>, <<12928, 12937>>, <<12977, 12991>>, <<13312, 19903>>,
      <<19968, 42124>>, <<42192, 42237>>, <<42240, 42508>>, <<42512, 42539>>,
      <<42560, 42606>>, <<42623, 42653>>, <<42656, 42735>>, <<42775, 42783>>,
      <<42786, 42888>>, <<42891, 42954>>, <<42960, 42961>>, <<42963, 42963>>,
      <<42965, 42969>>, <<42994, 43009>>, <<43011, 43013>>, <<43015, 43018>>,
      <<43020, 43042>>, <<43056, 43061>>, <<43072, 43123>>, <<43138, 43187>>,
      <<43216, 43225>>, <<43250, 43255>>, <<43259, 43259>>, <<43261, 43262>>,
      <<43264, 43301>>, <<43312, 43334>>, <<43360, 43388>>, <<43396, 43442>>,
      <<43471, 43481>>, <<43488, 43492>>, <<43494, 43518>>, <<43520, 43560>>,
      <<43584, 43586>>, <<43588, 43595>>, <<43600, 43609>>, <<43616, 43638>>,
      <<43642, 43642>>, <<43646, 43695>>, <<43697, 43697>>, <<43701, 43702>>,
      <<43705, 43709>>, <<43712, 43712>>, <<43714, 43714>>, <<43739, 43741>>,
      <<43744, 43754>>, <<43762, 43764>>, <<43777, 43782>>, <<43785, 43790>>,
      <<43793, 43798>>, <<43808, 43814>>, <<43816, 43822>>, <<43824, 43866>>,
      <<43868, 43881>>, <<43888, 44002>>, <<44016, 44025>>, <<44032, 55203>>,
      <<55216, 55238>>, <<55243, 55291>>, <<63744, 64109>>, <<64112, 64217>>,
      <<64256, 64262>>, <<64275, 64279>>, <<64285, 64285>>, <<64287, 64296>>,
      <<64298, 64310>>, <<64312, 64316>>, <<64318, 64318>>, <<64320, 64321>>,
      <<64323, 64324>>, <<64326, 64433>>, <<64467, 64829>>, <<64848, 64911>>,
      <<64914, 64967>>, <<65008, 65019>>, <<65136, 65140>>, <<65142, 65276>>,
      <<65296, 65305>>, <<65313, 65338>>, <<65345, 65370>>, <<65382, 65470>>,
      <<65474, 65479>>, <<65482, 65487>>, <<65490, 65495>>, <<65498, 65500>>,
      <<65536, 65547>>, <<65549, 65574>>, <<65576, 65594>>, <<65596, 65597>>,
      <<65599, 65613>>, <<65616, 65629>>, <<65664, 65786>>, <<65799, 65843>>,
      <<65856, 65912>>, <<65930, 65931>>, <<66176, 66204>>, <<66208, 66256>>,
      <<66273, 66299>>, <<66304, 66339>>, <<66349, 66378>>, <<66384, 66421>>,
      <<66432, 66461>>, <<66464, 66499>>, <<66504, 66511>>, <<66513, 66517>>,
      <<66560, 66717>>, <<66720, 66729>>, <<66736, 66771>>, <<66776, 66811>>,
      <<66816, 66855>>, <<66864, 66915>>, <<66928, 66938>>, <<66940, 66954>>,
      <<66956, 66962>>, <<66964, 66965>>, <<66967, 66977>>, <<66979, 66993>>,
      <<66995, 67001>>, <<67003, 67004>>, <<67072, 67382>>, <<67392, 67413>>,
      <<67424, 67431>>, <<67456, 67461>>, <<67463, 67504>>, <<67506, 67514>>,
      <<67584, 67589>>, <<67592, 67592>>, <<67594, 67637>>, <<67639, 67640>>,
      <<67644, 67644>>, <<67647, 67669>>, <<67672, 67702>>, <<67705, 67742>>,
      <<67751, 67759>>, <<67808, 67826>>, <<67828, 67829>>, <<67835, 67867>>,
      <<67872, 67897>>, <<67968, 68023>>, <<68028, 68047>>, <<68050, 68096>>,
      <<68112, 68115>>, <<68117, 68119>>, <<68121, 68149>>, <<68160, 68168>>,
      <<68192, 68222>>, <<68224, 68255>>, <<68288, 68295>>, <<68297, 68324>>,
      <<68331, 68335>>, <<68352, 68405>>, <<68416, 68437>>, <<68440, 68466>>,
      <<68472, 68497>>, <<68521, 68527>>, <<68608, 68680>>, <<68736, 68786>>,
      <<68800, 68850>>, <<68858, 68899>>, <<68912, 68921>>, <<69216, 69246>>,
      <<69248, 69289>>, <<69296, 69297>>, <<69376, 69415>>, <<69424, 69445>>,
      <<69457, 69460>>, <<69488, 69505>>, <<69552, 69579>>, <<69600, 69622>>,
      <<69635, 69687>>, <<69714, 69743>>, <<69745, 69746>>, <<69749, 69749>>,
      <<69763, 69807>>, <<69840, 69864>>, <<69872, 69881>>, <<69891, 69926>>,
      <<69942, 69951>>, <<69956, 69956>>, <<69959, 69959>>, <<69968, 70002>>,
      <<70006, 70006>>, <<70019, 70066>>, <<70081, 70084>>, <<70096, 70106>>,
      <<70108, 70108>>, <<70113, 70132>>, <<70144, 70161>>, <<70163, 70187>>,
      <<70272, 70278>>, <<70280, 70280>>, <<70282, 70285>>, <<70287, 70301>>,
      <<70303, 70312>>, <<70320, 70366>>, <<70384, 70393>>, <<70405, 70412>>,
      <<70415, 70416>>, <<70419, 70440>>, <<70442, 70448>>, <<70450, 70451>>,
      <<70453, 70457>>, <<70461, 70461>>, <<70480, 70480>>, <<70493, 70497>>,
      <<70656, 70708>>, <<70727, 70730>>, <<70736, 70745>>, <<70751, 70753>>,
      <<70784, 70831>>, <<70852, 70853>>, <<70855, 70855>>, <<70864, 70873>>,
      <<71040, 71086>>, <<71128, 71131>>, <<71168, 71215>>, <<71236, 71236>>,
      <<71248, 71257>>, <<71296, 71338>>, <<71352, 71352>>, <<71360, 71369>>,
      <<71424, 71450>>, <<71472, 71483>>, <<71488, 71494>>, <<71680, 71723>>,
      <<71840, 71922>>, <<71935, 71942>>, <<71945, 71945>>, <<71948, 71955>>,
      <<71957, 71958>>, <<71960, 71983>>, <<71999, 71999>>, <<72001, 72001>>,
      <<72016, 72025>>, <<72096, 72103>>, <<72106, 72144>>, <<72161, 72161>>,
      <<72163, 72163>>, <<72192, 72192>>, <<72203, 72242>>, <<72250, 72250>>,
      <<72272, 72272>>, <<72284, 72329>>, <<72349, 72349>>, <<72368, 72440>>,
      <<72704, 72712>>, <<72714, 72750>>, <<72768, 72768>>, <<72784, 72812>>,
      <<72818, 72847>>, <<72960, 72966>>, <<72968, 72969>>, <<72971, 73008>>,
      <<73030, 73030>>, <<73040, 73049>>, <<73056, 73061>>, <<73063, 73064>>,
      <<73066, 73097>>, <<73112, 73112>>, <<73120, 73129>>, <<73440, 73458>>,
      <<73648, 73648>>, <<73664, 73684>>, <<73728, 74649>>, <<74752, 74862>>,
      <<74880, 75075>>, <<77712, 77808>>, <<77824, 78894>>, <<82944, 83526>>,
      <<92160, 92728>>, <<92736, 92766>>, <<92768, 92777>>, <<92784, 92862>>,
      <<92864, 92873>>, <<92880, 92909>>, <<92928, 92975>>, <<92992, 92995>>,
      <<93008, 93017>>, <<93019, 93025>>, <<93027, 93047>>, <<93053, 93071>>,
      <<93760, 93846>>, <<93952, 94026>>, <<94032, 94032>>, <<94099, 94111>>,
      <<94176, 94177>>, <<94179, 94179>>, <<94208, 100343>>,
      <<100352, 101589>>, <<101632, 101640>>, <<110576, 110579>>,
      <<110581, 110587>>, <<110589, 110590>>, <<110592, 110882>>,
      <<110928, 110930>>, <<110948, 110951>>, <<110960, 111355>>,
      <<113664, 113770>>, <<113776, 113788>>, <<113792, 113800>>,
      <<113808, 113817>>, <<119520, 119539>>, <<119648, 119672>>,
      <<119808, 119892>>, <<119894, 119964>>, <<119966, 119967>>,
      <<119970, 119970>>, <<119973, 119974>>, <<119977, 119980>>,
      <<119982, 119993>>, <<119995, 119995>>, <<119997, 120003>>,
      <<120005, 120069>>, <<120071, 120074>>, <<120077, 120084>>,
      <<120086, 120092>>, <<120094, 120121>>, <<120123, 120126>>,
      <<120128, 120132>>, <<120134, 120134>>, <<120138, 120144>>,
      <<120146, 120485>>, <<120488, 120512>>, <<120514, 120538>>,
      <<120540, 120570>>, <<120572, 120596>>, <<120598, 120628>>,
      <<120630, 120654>>, <<120656, 120686>>, <<120688, 120712>>,
      <<120714, 120744>>, <<120746, 120770>>, <<120772, 120779>>,
      <<120782, 120831>>, <<122624, 122654>>, <<123136, 123180>>,
      <<123191, 123197>>, <<123200, 123209>>, <<123214, 123214>>,
      <<123536, 123565>>, <<123584, 123627>>, <<123632, 123641>>,
      <<124896, 124902>>, <<124904, 124907>>, <<124909, 124910>>,
      <<124912, 124926>>, <<124928, 125124>>, <<125127, 125135>>,
      <<125184, 125251>>, <<125259, 125259>>, <<125264, 125273>>,
      <<126065, 126123>>, <<126125, 126127>>, <<126129, 126132>>,
      <<126209, 126253>>, <<126255, 126269>>, <<126464, 126467>>,
      <<126469, 126495>>, <<126497, 126498>>, <<126500, 126500>>,
      <<126503, 126503>>, <<126505, 126514>>, <<126516, 126519>>,
      <<126521, 126521>>, <<126523, 126523>>, <<126530, 126530>>,
      <<126535, 126535>>, <<126537, 126537>>, <<126539, 126539>>,
      <<126541, 126543>>, <<126545, 126546>>, <<126548, 126548>>,
      <<126551, 126551>>, <<126553, 126553>>, <<126555, 126555>>,
      <<126557, 126557>>, <<126559, 126559>>, <<126561, 126562>>,
      <<126564, 126564>>, <<126567, 126570>>, <<126572, 126578>>,
      <<126580, 126583>>, <<126585, 126588>>, <<126590, 126590>>,
      <<126592, 126601>>, <<126603, 126619>>, <<126625, 126627>>,
      <<126629, 126633>>, <<126635, 126651>>, <<127232, 127244>>,
      <<130032, 130041>>, <<131072, 173791>>, <<173824, 177976>>,
      <<177984, 178205>>, <<178208, 183969>>, <<183984, 191456>>,
      <<194560, 195101>>, <<196608, 201546>>>>

\* Case mappings: <<first, last, step, delta>> maps every step-th code
\* point cp from first to last to cp + delta.
\* the lowercase of one character (one character but for U+0130)
LowerRuns ==
    <<<<65, 90, 1, 32>>, <<192, 214, 1, 32>>, <<216, 222, 1, 32>>,
      <<256, 302, 2, 1>>, <<304, 304, 1, -199>>, <<306, 310, 2, 1>>,
      <<313, 327, 2, 1>>, <<330, 374, 2, 1>>, <<376, 376, 1, -121>>,
      <<377, 381, 2, 1>>, <<385, 385, 1, 210>>, <<386, 388, 2, 1>>,
      <<390, 390, 1, 206>>, <<391, 391, 1, 1>>, <<393, 394, 1, 205>>,
      <<395, 395, 1, 1>>, <<398, 398, 1, 79>>, <<399, 399, 1, 202>>,
      <<400, 400, 1, 203>>, <<401, 401, 1, 1>>, <<403, 403, 1, 205>>,
      <<404, 404, 1, 207>>, <<406, 406, 1, 211>>, <<407, 407, 1, 209>>,
      <<408, 408, 1, 1>>, <<412, 412, 1, 211>>, <<413, 413, 1, 213>>,
      <<415, 415, 1, 214>>, <<416, 420, 2, 1>>, <<422, 422, 1, 218>>,
      <<423, 423, 1, 1>>, <<425, 425, 1, 218>>, <<428, 428, 1, 1>>,
      <<430, 430, 1, 218>>, <<431, 431, 1, 1>>, <<433, 434, 1, 217>>,
      <<435, 437, 2, 1>>, <<439, 439, 1, 219>>, <<440, 440, 1, 1>>,
      <<444, 444, 1, 1>>, <<452, 452, 1, 2>>, <<453, 453, 1, 1>>,
      <<455, 455, 1, 2>>, <<456, 456, 1, 1>>, <<458, 458, 1, 2>>,
      <<459, 475, 2, 1>>, <<478, 494, 2, 1>>, <<497, 497, 1, 2>>,
      <<498, 500, 2, 1>>, <<502, 502, 1, -97>>, <<503, 503, 1, -56>>,
      <<504, 542, 2, 1>>, <<544, 544, 1, -130>>, <<546, 562, 2, 1>>,
      <<570, 570, 1, 10795>>, <<571, 571, 1, 1>>, <<573, 573, 1, -163>>,
      <<574, 574, 1, 10792>>, <<577, 577, 1, 1>>, <<579, 579, 1, -195>>,
      <<580, 580, 1, 69>>, <<581, 581, 1, 71>>, <<582, 590, 2, 1>>,
      <<880, 882, 2, 1>>, <<886, 886, 1, 1>>, <<895, 895, 1, 116>>,
      <<902, 902, 1, 38>>, <<904, 906, 1, 37>>, <<908, 908, 1, 64>>,
      <<910, 911, 1, 63>>, <<913, 929, 1, 32>>, <<931, 939, 1, 32>>,
      <<975, 975, 1, 8>>, <<984, 1006, 2, 1>>, <<1012, 1012, 1, -60>>,
      <<1015, 1015, 1, 1>>, <<1017, 1017, 1, -7>>, <<1018, 1018, 1, 1>>,
      <<1021, 1023, 1, -130>>, <<1024, 1039, 1, 80>>, <<1040, 1071, 1, 32>>,
      <<1120, 1152, 2, 1>>, <<1162, 1214, 2, 1>>, <<1216, 1216, 1, 15>>,
      <<1217, 1229, 2, 1>>, <<1232, 1326, 2, 1>>, <<1329, 1366, 1, 48>>,
      <<4256, 4293, 1, 7264>>, <<4295, 4295, 1, 7264>>,
      <<4301, 4301, 1, 7264>>, <<5024, 5103, 1, 38864>>, <<5104, 5109, 1, 8>>,
      <<7312, 7354, 1, -3008>>, <<7357, 7359, 1, -3008>>, <<7680, 7828, 2, 1>>,
      <<7838, 7838, 1, -7615>>, <<7840, 7934, 2, 1>>, <<7944, 7951, 1, -8>>,
      <<7960, 7965, 1, -8>>, <<7976, 7983, 1, -8>>, <<7992, 7999, 1, -8>>,
      <<8008, 8013, 1, -8>>, <<8025, 8031, 2, -8>>, <<8040, 8047, 1, -8>>,
      <<8072, 8079, 1, -8>>, <<8088, 8095, 1, -8>>, <<8104, 8111, 1, -8>>,
      <<8120, 8121, 1, -8>>, <<8122, 8123, 1, -74>>, <<8124, 8124, 1, -9>>,
      <<8136, 8139, 1, -86>>, <<8140, 8140, 1, -9>>, <<8152, 8153, 1, -8>>,
      <<8154, 8155, 1, -100>>, <<8168, 8169, 1, -8>>, <<8170, 8171, 1, -112>>,
      <<8172, 8172, 1, -7>>, <<8184, 8185, 1, -128>>, <<8186, 8187, 1, -126>>,
      <<8188, 8188, 1, -9>>, <<8486, 8486, 1, -7517>>,
      <<8490, 8490, 1, -8383>>, <<8491, 8491, 1, -8262>>,
      <<8498, 8498, 1, 28>>, <<8544, 8559, 1, 16>>, <<8579, 8579, 1, 1>>,
      <<9398, 9423, 1, 26>>, <<11264, 11311, 1, 48>>, <<11360, 11360, 1, 1>>,
      <<11362, 11362, 1, -10743>>, <<11363, 11363, 1, -3814>>,
      <<11364, 11364, 1, -10727>>, <<11367, 11371, 2, 1>>,
      <<11373, 11373, 1, -10780>>, <<11374, 11374, 1, -10749>>,
      <<11375, 11375, 1, -10783>>, <<11376, 11376, 1, -10782>>,
      <<11378, 11378, 1, 1>>, <<11381, 11381, 1, 1>>,
      <<11390, 11391, 1, -10815>>, <<11392, 11490, 2, 1>>,
      <<11499, 11501, 2, 1>>, <<11506, 11506, 1, 1>>, <<42560, 42604, 2, 1>>,
      <<42624, 42650, 2, 1>>, <<42786, 42798, 2, 1>>, <<42802, 42862, 2, 1>>,
      <<42873, 42875, 2, 1>>, <<42877, 42877, 1, -35332>>,
      <<42878, 42886, 2, 1>>, <<42891, 42891, 1, 1>>,
      <<42893, 42893, 1, -42280>>, <<42896, 42898, 2, 1>>,
      <<42902, 42920, 2, 1>>, <<42922, 42922, 1, -42308>>,
      <<42923, 42923, 1, -42319>>, <<42924, 42924, 1, -42315>>,
      <<42925, 42925, 1, -42305>>, <<42926, 42926, 1, -42308>>,
      <<42928, 42928, 1, -42258>>, <<42929, 42929, 1, -42282>>,
      <<42930, 42930, 1, -42261>>, <<42931, 42931, 1, 928>>,
      <<42932, 42946, 2, 1>>, <<42948, 42948, 1, -48>>,
      <<42949, 42949, 1, -42307>>, <<42950, 42950, 1, -35384>>,
      <<42951, 42953, 2, 1>>, <<42960, 42960, 1, 1>>, <<42966, 42968, 2, 1>>,
      <<42997, 42997, 1, 1>>, <<65313, 65338, 1, 32>>, <<66560, 66599, 1, 40>>,
      <<66736, 66771, 1, 40>>, <<66928, 66964, 2, 39>>,
      <<66929, 66937, 2, 39>>, <<66941, 66953, 2, 39>>,
      <<66957, 66961, 2, 39>>, <<66965, 66965, 1, 39>>,
      <<68736, 68786, 1, 64>>, <<71840, 71871, 1, 32>>,
      <<93760, 93791, 1, 32>>, <<125184, 125217, 1, 34>>>>

\* the uppercase of the characters whose uppercase is one character
UpperRuns ==
    <<<<97, 122, 1, -32>>, <<181, 181, 1, 743>>, <<224, 246, 1, -32>>,
      <<248, 254, 1, -32>>, <<255, 255, 1, 121>>, <<257, 303, 2, -1>>,
      <<305, 305, 1, -232>>, <<307, 311, 2, -1>>, <<314, 328, 2, -1>>,
      <<331, 375, 2, -1>>, <<378, 382, 2, -1>>, <<383, 383, 1, -300>>,
      <<384, 384, 1, 195>>, <<387, 389, 2, -1>>, <<392, 392, 1, -1>>,
      <<396, 396, 1, -1>>, <<402, 402, 1, -1>>, <<405, 405, 1, 97>>,
      <<409, 409, 1, -1>>, <<410, 410, 1, 163>>, <<414, 414, 1, 130>>,
      <<417, 421, 2, -1>>, <<424, 424, 1, -1>>, <<429, 429, 1, -1>>,
      <<432, 432, 1, -1>>, <<436, 438, 2, -1>>, <<441, 441, 1, -1>>,
      <<445, 445, 1, -1>>, <<447, 447, 1, 56>>, <<453, 453, 1, -1>>,
      <<454, 454, 1, -2>>, <<456, 456, 1, -1>>, <<457, 457, 1, -2>>,
      <<459, 459, 1, -1>>, <<460, 460, 1, -2>>, <<462, 476, 2, -1>>,
      <<477, 477, 1, -79>>, <<479, 495, 2, -1>>, <<498, 498, 1, -1>>,
      <<499, 499, 1, -2>>, <<501, 501, 1, -1>>, <<505, 543, 2, -1>>,
      <<547, 563, 2, -1>>, <<572, 572, 1, -1>>, <<575, 576, 1, 10815>>,
      <<578, 578, 1, -1>>, <<583, 591, 2, -1>>, <<592, 592, 1, 10783>>,
      <<593, 593, 1, 10780>>, <<594, 594, 1, 10782>>, <<595, 595, 1, -210>>,
      <<596, 596, 1, -206>>, <<598, 599, 1, -205>>, <<601, 601, 1, -202>>,
      <<603, 603, 1, -203>>, <<604, 604, 1, 42319>>, <<608, 608, 1, -205>>,
      <<609, 609, 1, 42315>>, <<611, 611, 1, -207>>, <<613, 613, 1, 42280>>,
      <<614, 614, 1, 42308>>, <<616, 616, 1, -209>>, <<617, 617, 1, -211>>,
      <<618, 618, 1, 42308>>, <<619, 619, 1, 10743>>, <<620, 620, 1, 42305>>,
      <<623, 623, 1, -211>>, <<625, 625, 1, 10749>>, <<626, 626, 1, -213>>,
      <<629, 629, 1, -214>>, <<637, 637, 1, 10727>>, <<640, 640, 1, -218>>,
      <<642, 642, 1, 42307>>, <<643, 643, 1, -218>>, <<647, 647, 1, 42282>>,
      <<648, 648, 1, -218>>, <<649, 649, 1, -69>>, <<650, 651, 1, -217>>,
      <<652, 652, 1, -71>>, <<658, 658, 1, -219>>, <<669, 669, 1, 42261>>,
      <<670, 670, 1, 42258>>, <<837, 837, 1, 84>>, <<881, 883, 2, -1>>,
      <<887, 887, 1, -1>>, <<891, 893, 1, 130>>, <<940, 940, 1, -38>>,
      <<941, 943, 1, -37>>, <<945, 961, 1, -32>>, <<962, 962, 1, -31>>,
      <<963, 971, 1, -32>>, <<972, 972, 1, -64>>, <<973, 974, 1, -63>>,
      <<976, 976, 1, -62>>, <<977, 977, 1, -57>>, <<981, 981, 1, -47>>,
      <<982, 982, 1, -54>>, <<983, 983, 1, -8>>, <<985, 1007, 2, -1>>,
      <<1008, 1008, 1, -86>>, <<1009, 1009, 1, -80>>, <<1010, 1010, 1, 7>>,
      <<1011, 1011, 1, -116>>, <<1013, 1013, 1, -96>>, <<1016, 1016, 1, -1>>,
      <<1019, 1019, 1, -1>>, <<1072, 1103, 1, -32>>, <<1104, 1119, 1, -80>>,
      <<1121, 1153, 2, -1>>, <<1163, 1215, 2, -1>>, <<1218, 1230, 2, -1>>,
      <<1231, 1231, 1, -15>>, <<1233, 1327, 2, -1>>, <<1377, 1414, 1, -48>>,
      <<4304, 4346, 1, 3008>>, <<4349, 4351, 1, 3008>>, <<5112, 5117, 1, -8>>,
      <<7296, 7296, 1, -6254>>, <<7297, 7297, 1, -6253>>,
      <<7298, 7298, 1, -6244>>, <<7299, 7300, 1, -6242>>,
      <<7301, 7301, 1, -6243>>, <<7302, 7302, 1, -6236>>,
      <<7303, 7303, 1, -6181>>, <<7304, 7304, 1, 35266>>,
      <<7545, 7545, 1, 35332>>, <<7549, 7549, 1, 3814>>,
      <<7566, 7566, 1, 35384>>, <<7681, 7829, 2, -1>>, <<7835, 7835, 1, -59>>,
      <<7841, 7935, 2, -1>>, <<7936, 7943, 1, 8>>, <<7952, 7957, 1, 8>>,
      <<7968, 7975, 1, 8>>, <<7984, 7991, 1, 8>>, <<8000, 8005, 1, 8>>,
      <<8017, 8023, 2, 8>>, <<8032, 8039, 1, 8>>, <<8048, 8049, 1, 74>>,
      <<8050, 8053, 1, 86>>, <<8054, 8055, 1, 100>>, <<8056, 8057, 1, 128>>,
      <<8058, 8059, 1, 112>>, <<8060, 8061, 1, 126>>, <<8112, 8113, 1, 8>>,
      <<8126, 8126, 1, -7205>>, <<8144, 8145, 1, 8>>, <<8160, 8161, 1, 8>>,
      <<8165, 8165, 1, 7>>, <<8526, 8526, 1, -28>>, <<8560, 8575, 1, -16>>,
      <<8580, 8580, 1, -1>>, <<9424, 9449, 1, -26>>, <<11312, 11359, 1, -48>>,
      <<11361, 11361, 1, -1>>, <<11365, 11365, 1, -10795>>,
      <<11366, 11366, 1, -10792>>, <<11368, 11372, 2, -1>>,
      <<11379, 11379, 1, -1>>, <<11382, 11382, 1, -1>>,
      <<11393, 11491, 2, -1>>, <<11500, 11502, 2, -1>>,
      <<11507, 11507, 1, -1>>, <<11520, 11557, 1, -7264>>,
      <<11559, 11559, 1, -7264>>, <<11565, 11565, 1, -7264>>,
      <<42561, 42605, 2, -1>>, <<42625, 42651, 2, -1>>,
      <<42787, 42799, 2, -1>>, <<42803, 42863, 2, -1>>,
      <<42874, 42876, 2, -1>>, <<42879, 42887, 2, -1>>,
      <<42892, 42892, 1, -1>>, <<42897, 42899, 2, -1>>,
      <<42900, 42900, 1, 48>>, <<42903, 42921, 2, -1>>,
      <<42933, 42947, 2, -1>>, <<42952, 42954, 2, -1>>,
      <<42961, 42961, 1, -1>>, <<42967, 42969, 2, -1>>,
      <<42998, 42998, 1, -1>>, <<43859, 43859, 1, -928>>,
      <<43888, 43967, 1, -38864>>, <<65345, 65370, 1, -32>>,
      <<66600, 66639, 1, -40>>, <<66776, 66811, 1, -40>>,
      <<66967, 67003, 2, -39>>, <<66968, 66976, 2, -39>>,
      <<66980, 66992, 2, -39>>, <<66996, 67000, 2, -39>>,
      <<67004, 67004, 1, -39>>, <<68800, 68850, 1, -64>>,
      <<71872, 71903, 1, -32>>, <<93792, 93823, 1, -32>>,
      <<125218, 125251, 1, -34>>>>

\* the characters whose uppercase is more than one character
UpperSpecial ==
    <<<<223, <<83, 83>>>>, <<329, <<700, 78>>>>, <<496, <<74, 780>>>>,
      <<912, <<921, 776, 769>>>>, <<944, <<933, 776, 769>>>>,
      <<1415, <<1333, 1362>>>>, <<7830, <<72, 817>>>>, <<7831, <<84, 776>>>>,
      <<7832, <<87, 778>>>>, <<7833, <<89, 778>>>>, <<7834, <<65, 702>>>>,
      <<8016, <<933, 787>>>>, <<8018, <<933, 787, 768>>>>,
      <<8020, <<933, 787, 769>>>>, <<8022, <<933, 787, 834>>>>,
      <<8064, <<7944, 921>>>>, <<8065, <<7945, 921>>>>,
      <<8066, <<7946, 921>>>>, <<8067, <<7947, 921>>>>,
      <<8068, <<7948, 921>>>>, <<8069, <<7949, 921>>>>,
      <<8070, <<7950, 921>>>>, <<8071, <<7951, 921>>>>,
      <<8072, <<7944, 921>>>>, <<8073, <<7945, 921>>>>,
      <<8074, <<7946, 921>>>>, <<8075, <<7947, 921>>>>,
      <<8076, <<7948, 921>>>>, <<8077, <<7949, 921>>>>,
      <<8078, <<7950, 921>>>>, <<8079, <<7951, 921>>>>,
      <<8080, <<7976, 921>>>>, <<8081, <<7977, 921>>>>,
      <<8082, <<7978, 921>>>>, <<8083, <<7979, 921>>>>,
      <<8084, <<7980, 921>>>>, <<8085, <<7981, 921>>>>,
      <<8086, <<7982, 921>>>>, <<8087, <<7983, 921>>>>,
      <<8088, <<7976, 921>>>>, <<8089, <<7977, 921>>>>,
      <<8090, <<7978, 921>>>>, <<8091, <<7979, 921>>>>,
      <<8092, <<7980, 921>>>>, <<8093, <<7981, 921>>>>,
      <<8094, <<7982, 921>>>>, <<8095, <<7983, 921>>>>,
      <<8096, <<8040, 921>>>>, <<8097, <<8041, 921>>>>,
      <<8098, <<8042, 921>>>>, <<8099, <<8043, 921>>>>,
      <<8100, <<8044, 921>>>>, <<8101, <<8045, 921>>>>,
      <<8102, <<8046, 921>>>>, <<8103, <<8047, 921>>>>,
      <<8104, <<8040, 921>>>>, <<8105, <<8041, 921>>>>,
      <<8106, <<8042, 921>>>>, <<8107, <<8043, 921>>>>,
      <<8108, <<8044, 921>>>>, <<8109, <<8045, 921>>>>,
      <<8110, <<8046, 921>>>>, <<8111, <<8047, 921>>>>,
      <<8114, <<8122, 921>>>>, <<8115, <<913, 921>>>>, <<8116, <<902, 921>>>>,
      <<8118, <<913, 834>>>>, <<8119, <<913, 834, 921>>>>,
      <<8124, <<913, 921>>>>, <<8130, <<8138, 921>>>>, <<8131, <<919, 921>>>>,
      <<8132, <<905, 921>>>>, <<8134, <<919, 834>>>>,
      <<8135, <<919, 834, 921>>>>, <<8140, <<919, 921>>>>,
      <<8146, <<921, 776, 768>>>>, <<8147, <<921, 776, 769>>>>,
      <<8150, <<921, 834>>>>, <<8151, <<921, 776, 834>>>>,
      <<8162, <<933, 776, 768>>>>, <<8163, <<933, 776, 769>>>>,
      <<8164, <<929, 787>>>>, <<8166, <<933, 834>>>>,
      <<8167, <<933, 776, 834>>>>, <<8178, <<8186, 921>>>>,
      <<8179, <<937, 921>>>>, <<8180, <<911, 921>>>>, <<8182, <<937, 834>>>>,
      <<8183, <<937, 834, 921>>>>, <<8188, <<937, 921>>>>,
      <<64256, <<70, 70>>>>, <<64257, <<70, 73>>>>, <<64258, <<70, 76>>>>,
      <<64259, <<70, 70, 73>>>>, <<64260, <<70, 70, 76>>>>,
      <<64261, <<83, 84>>>>, <<64262, <<83, 84>>>>, <<64275, <<1348, 1350>>>>,
      <<64276, <<1348, 1333>>>>, <<64277, <<1348, 1339>>>>,
      <<64278, <<1358, 1350>>>>, <<64279, <<1348, 1341>>>>>>

\* re._casefix._EXTRA_CASES: the lowercase characters that match one
\* another under re.IGNORECASE beside their own lowercase
CaseFixes ==
    <<<<105, <<305>>>>, <<115, <<383>>>>, <<181, <<956>>>>, <<305, <<105>>>>,
      <<383, <<115>>>>, <<837, <<953, 8126>>>>, <<912, <<8147>>>>,
      <<944, <<8163>>>>, <<946, <<976>>>>, <<949, <<1013>>>>, <<952, <<977>>>>,
      <<953, <<837, 8126>>>>, <<954, <<1008>>>>, <<956, <<181>>>>,
      <<960, <<982>>>>, <<961, <<1009>>>>, <<962, <<963>>>>, <<963, <<962>>>>,
      <<966, <<981>>>>, <<976, <<946>>>>, <<977, <<952>>>>, <<981, <<966>>>>,
      <<982, <<960>>>>, <<1008, <<954>>>>, <<1009, <<961>>>>,
      <<1013, <<949>>>>, <<1074, <<7296>>>>, <<1076, <<7297>>>>,
      <<1086, <<7298>>>>, <<1089, <<7299>>>>, <<1090, <<7300, 7301>>>>,
      <<1098, <<7302>>>>, <<1123, <<7303>>>>, <<7296, <<1074>>>>,
      <<7297, <<1076>>>>, <<7298, <<1086>>>>, <<7299, <<1089>>>>,
      <<7300, <<1090, 7301>>>>, <<7301, <<1090, 7300>>>>, <<7302, <<1098>>>>,
      <<7303, <<1123>>>>, <<7304, <<42571>>>>, <<7777, <<7835>>>>,
      <<7835, <<7777>>>>, <<8126, <<837, 953>>>>, <<8147, <<912>>>>,
      <<8163, <<944>>>>, <<42571, <<7304>>>>, <<64261, <<64262>>>>,
      <<64262, <<64261>>>>>>

\* The cased characters that are not case-ignorable
CasedRanges ==
    <<<<65, 90>>, <<97, 122>>, <<170, 170>>, <<181, 181>>, <<186, 186>>,
      <<192, 214>>, <<216, 246>>, <<248, 442>>, <<444, 447>>, <<452, 659>>,
      <<661, 687>>, <<880, 883>>, <<886, 887>>, <<891, 893>>, <<895, 895>>,
      <<902, 902>>, <<904, 906>>, <<908, 908>>, <<910, 929>>, <<931, 1013>>,
      <<1015, 1153>>, <<1162, 1327>>, <<1329, 1366>>, <<1376, 1416>>,
      <<4256, 4293>>, <<4295, 4295>>, <<4301, 4301>>, <<4304, 4346>>,
      <<4349, 4351>>, <<5024, 5109>>, <<5112, 5117>>, <<7296, 7304>>,
      <<7312, 7354>>, <<7357, 7359>>, <<7424, 7467>>, <<7531, 7543>>,
      <<7545, 7578>>, <<7680, 7957>>, <<7960, 7965>>, <<7968, 8005>>,
      <<8008, 8013>>, <<8016, 8023>>, <<8025, 8025>>, <<8027, 8027>>,
      <<8029, 8029>>, <<8031, 8061>>, <<8064, 8116>>, <<8118, 8124>>,
      <<8126, 8126>>, <<8130, 8132>>, <<8134, 8140>>, <<8144, 8147>>,
      <<8150, 8155>>, <<8160, 8172>>, <<8178, 8180>>, <<8182, 8188>>,
      <<8450, 8450>>, <<8455, 8455>>, <<8458, 8467>>, <<8469, 8469>>,
      <<8473, 8477>>, <<8484, 8484>>, <<8486, 8486>>, <<8488, 8488>>,
      <<8490, 8493>>, <<8495, 8500>>, <<8505, 8505>>, <<8508, 8511>>,
      <<8517, 8521>>, <<8526, 8526>>, <<8544, 8575>>, <<8579, 8580>>,
      <<9398, 9449>>, <<11264, 11387>>, <<11390, 11492>>, <<11499, 11502>>,
      <<11506, 11507>>, <<11520, 11557>>, <<11559, 11559>>, <<11565, 11565>>,
      <<42560, 42605>>, <<42624, 42651>>, <<42786, 42863>>, <<42865, 42887>>,
      <<42891, 42894>>, <<42896, 42954>>, <<42960, 42961>>, <<42963, 42963>>,
      <<42965, 42969>>, <<42997, 42998>>, <<43002, 43002>>, <<43824, 43866>>,
      <<43872, 43880>>, <<43888, 43967>>, <<64256, 64262>>, <<64275, 64279>>,
      <<65313, 65338>>, <<65345, 65370>>, <<66560, 66639>>, <<66736, 66771>>,
      <<66776, 66811>>, <<66928, 66938>>, <<66940, 66954>>, <<66956, 66962>>,
      <<66964, 66965>>, <<66967, 66977>>, <<66979, 66993>>, <<66995, 67001>>,
      <<67003, 67004>>, <<68736, 68786>>, <<68800, 68850>>, <<71840, 71903>>,
      <<93760, 93823>>, <<119808, 119892>>, <<119894, 119964>>,
      <<119966, 119967>>, <<119970, 119970>>, <<119973, 119974>>,
      <<119977, 119980>>, <<119982, 119993>>, <<119995, 119995>>,
      <<119997, 120003>>, <<120005, 120069>>, <<120071, 120074>>,
      <<120077, 120084>>, <<120086, 120092>>, <<120094, 120121>>,
      <<120123, 120126>>, <<120128, 120132>>, <<120134, 120134>>,
      <<120138, 120144>>, <<120146, 120485>>, <<120488, 120512>>,
      <<120514, 120538>>, <<120540, 120570>>, <<120572, 120596>>,
      <<120598, 120628>>, <<120630, 120654>>, <<120656, 120686>>,
      <<120688, 120712>>, <<120714, 120744>>, <<120746, 120770>>,
      <<120772, 120779>>, <<122624, 122633>>, <<122635, 122654>>,
      <<125184, 125251>>, <<127280, 127305>>, <<127312, 127337>>,
      <<127344, 127369>>>>

\* The case-ignorable characters
CaseIgnorableRanges ==
    <<<<39, 39>>, <<46, 46>>, <<58, 58>>, <<94, 94>>, <<96, 96>>, <<168, 168>>,
      <<173, 173>>, <<175, 175>>, <<180, 180>>, <<183, 184>>, <<688, 879>>,
      <<884, 885>>, <<890, 890>>, <<900, 901>>, <<903, 903>>, <<1155, 1161>>,
      <<1369, 1369>>, <<1375, 1375>>, <<1425, 1469>>, <<1471, 1471>>,
      <<1473, 1474>>, <<1476, 1477>>, <<1479, 1479>>, <<1524, 1524>>,
      <<1536, 1541>>, <<1552, 1562>>, <<1564, 1564>>, <<1600, 1600>>,
      <<1611, 1631>>, <<1648, 1648>>, <<1750, 1757>>, <<1759, 1768>>,
      <<1770, 1773>>, <<1807, 1807>>, <<1809, 1809>>, <<1840, 1866>>,
      <<1958, 1968>>, <<2027, 2037>>, <<2042, 2042>>, <<2045, 2045>>,
      <<2070, 2093>>, <<2137, 2139>>, <<2184, 2184>>, <<2192, 2193>>,
      <<2200, 2207>>, <<2249, 2306>>, <<2362, 2362>>, <<2364, 2364>>,
      <<2369, 2376>>, <<2381, 2381>>, <<2385, 2391>>, <<2402, 2403>>,
      <<2417, 2417>>, <<2433, 2433>>, <<2492, 2492>>, <<2497, 2500>>,
      <<2509, 2509>>, <<2530, 2531>>, <<2558, 2558>>, <<2561, 2562>>,
      <<2620, 2620>>, <<2625, 2626>>, <<2631, 2632>>, <<2635, 2637>>,
      <<2641, 2641>>, <<2672, 2673>>, <<2677, 2677>>, <<2689, 2690>>,
      <<2748, 2748>>, <<2753, 2757>>, <<2759, 2760>>, <<2765, 2765>>,
      <<2786, 2787>>, <<2810, 2815>>, <<2817, 2817>>, <<2876, 2876>>,
      <<2879, 2879>>, <<2881, 2884>>, <<2893, 2893>>, <<2901, 2902>>,
      <<2914, 2915>>, <<2946, 2946>>, <<3008, 3008>>, <<3021, 3021>>,
      <<3072, 3072>>, <<3076, 3076>>, <<3132, 3132>>, <<3134, 3136>>,
      <<3142, 3144>>, <<3146, 3149>>, <<3157, 3158>>, <<3170, 3171>>,
      <<3201, 3201>>, <<3260, 3260>>, <<3263, 3263>>, <<3270, 3270>>,
      <<3276, 3277>>, <<3298, 3299>>, <<3328, 3329>>, <<3387, 3388>>,
      <<3393, 3396>>, <<3405, 3405>>, <<3426, 3427>>, <<3457, 3457>>,
      <<3530, 3530>>, <<3538, 3540>>, <<3542, 3542>>, <<3633, 3633>>,
      <<3636, 3642>>, <<3654, 3662>>, <<3761, 3761>>, <<3764, 3772>>,
      <<3782, 3782>>, <<3784, 3789>>, <<3864, 3865>>, <<3893, 3893>>,
      <<3895, 3895>>, <<3897, 3897>>, <<3953, 3966>>, <<3968, 3972>>,
      <<3974, 3975>>, <<3981, 3991>>, <<3993, 4028>>, <<4038, 4038>>,
      <<4141, 4144>>, <<4146, 4151>>, <<4153, 4154>>, <<4157, 4158>>,
      <<4184, 4185>>, <<4190, 4192>>, <<4209, 4212>>, <<4226, 4226>>,
      <<4229, 4230>>, <<4237, 4237>>, <<4253, 4253>>, <<4348, 4348>>,
      <<4957, 4959>>, <<5906, 5908>>, <<5938, 5939>>, <<5970, 5971>>,
      <<6002, 6003>>, <<6068, 6069>>, <<6071, 6077>>, <<6086, 6086>>,
      <<6089, 6099>>, <<6103, 6103>>, <<6109, 6109>>, <<6155, 6159>>,
      <<6211, 6211>>, <<6277, 6278>>, <<6313, 6313>>, <<6432, 6434>>,
      <<6439, 6440>>, <<6450, 6450>>, <<6457, 6459>>, <<6679, 6680>>,
      <<6683, 6683>>, <<6742, 6742>>, <<6744, 6750>>, <<6752, 6752>>,
      <<6754, 6754>>, <<6757, 6764>>, <<6771, 6780>>, <<6783, 6783>>,
      <<6823, 6823>>, <<6832, 6862>>, <<6912, 6915>>, <<6964, 6964>>,
      <<6966, 6970>>, <<6972, 6972>>, <<6978, 6978>>, <<7019, 7027>>,
      <<7040, 7041>>, <<7074, 7077>>, <<7080, 7081>>, <<7083, 7085>>,
      <<7142, 7142>>, <<7144, 7145>>, <<7149, 7149>>, <<7151, 7153>>,
      <<7212, 7219>>, <<7222, 7223>>, <<7288, 7293>>, <<7376, 7378>>,
      <<7380, 7392>>, <<7394, 7400>>, <<7405, 7405>>, <<7412, 7412>>,
      <<7416, 7417>>, <<7468, 7530>>, <<7544, 7544>>, <<7579, 7679>>,
      <<8125, 8125>>, <<8127, 8129>>, <<8141, 8143>>, <<8157, 8159>>,
      <<8173, 8175>>, <<8189, 8190>>, <<8203, 8207>>, <<8216, 8217>>,
      <<8228, 8228>>, <<8231, 8231>>, <<8234, 8238>>, <<8288, 8292>>,
      <<8294, 8303>>, <<8305, 8305>>, <<8319, 8319>>, <<8336, 8348>>,
      <<8400, 8432>>, <<11388, 11389>>, <<11503, 11505>>, <<11631, 11631>>,
      <<11647, 11647>>, <<11744, 11775>>, <<11823, 11823>>, <<12293, 12293>>,
      <<12330, 12333>>, <<12337, 12341>>, <<12347, 12347>>, <<12441, 12446>>,
      <<12540, 12542>>, <<40981, 40981>>, <<42232, 42237>>, <<42508, 42508>>,
      <<42607, 42610>>, <<42612, 42621>>, <<42623, 42623>>, <<42652, 42655>>,
      <<42736, 42737>>, <<42752, 42785>>, <<42864, 42864>>, <<42888, 42890>>,
      <<42994, 42996>>, <<43000, 43001>>, <<43010, 43010>>, <<43014, 43014>>,
      <<43019, 43019>>, <<43045, 43046>>, <<43052, 43052>>, <<43204, 43205>>,
      <<43232, 43249>>, <<43263, 43263>>, <<43302, 43309>>, <<43335, 43345>>,
      <<43392, 43394>>, <<43443, 43443>>, <<43446, 43449>>, <<43452, 43453>>,
      <<43471, 43471>>, <<43493, 43494>>, <<43561, 43566>>, <<43569, 43570>>,
      <<43573, 43574>>, <<43587, 43587>>, <<43596, 43596>>, <<43632, 43632>>,
      <<43644, 43644>>, <<43696, 43696>>, <<43698, 43700>>, <<43703, 43704>>,
      <<43710, 43711>>, <<43713, 43713>>, <<43741, 43741>>, <<43756, 43757>>,
      <<43763, 43764>>, <<43766, 43766>>, <<43867, 43871>>, <<43881, 43883>>,
      <<44005, 44005>>, <<44008, 44008>>, <<44013, 44013>>, <<64286, 64286>>,
      <<64434, 64450>>, <<65024, 65039>>, <<65043, 65043>>, <<65056, 65071>>,
      <<65106, 65106>>, <<65109, 65109>>, <<65279, 65279>>, <<65287, 65287>>,
      <<65294, 65294>>, <<65306, 65306>>, <<65342, 65342>>, <<65344, 65344>>,
      <<65392, 65392>>, <<65438, 65439>>, <<65507, 65507>>, <<65529, 65531>>,
      <<66045, 66045>>, <<66272, 66272>>, <<66422, 66426>>, <<67456, 67461>>,
      <<67463, 67504>>, <<67506, 67514>>, <<68097, 68099>>, <<68101, 68102>>,
      <<68108, 68111>>, <<68152, 68154>>, <<68159, 68159>>, <<68325, 68326>>,
      <<68900, 68903>>, <<69291, 69292>>, <<69446, 69456>>, <<69506, 69509>>,
      <<69633, 69633>>, <<69688, 69702>>, <<69744, 69744>>, <<69747, 69748>>,
      <<69759, 69761>>, <<69811, 69814>>, <<69817, 69818>>, <<69821, 69821>>,
      <<69826, 69826>>, <<69837, 69837>>, <<69888, 69890>>, <<69927, 69931>>,
      <<69933, 69940>>, <<70003, 70003>>, <<70016, 70017>>, <<70070, 70078>>,
      <<70089, 70092>>, <<70095, 70095>>, <<70191, 70193>>, <<70196, 70196>>,
      <<70198, 70199>>, <<70206, 70206>>, <<70367, 70367>>, <<70371, 70378>>,
      <<70400, 70401>>, <<70459, 70460>>, <<70464, 70464>>, <<70502, 70508>>,
      <<70512, 70516>>, <<70712, 70719>>, <<70722, 70724>>, <<70726, 70726>>,
      <<70750, 70750>>, <<70835, 70840>>, <<70842, 70842>>, <<70847, 70848>>,
      <<70850, 70851>>, <<71090, 71093>>, <<71100, 71101>>, <<71103, 71104>>,
      <<71132, 71133>>, <<71219, 71226>>, <<71229, 71229>>, <<71231, 71232>>,
      <<71339, 71339>>, <<71341, 71341>>, <<71344, 71349>>, <<71351, 71351>>,
      <<71453, 71455>>, <<71458, 71461>>, <<71463, 71467>>, <<71727, 71735>>,
      <<71737, 71738>>, <<71995, 71996>>, <<71998, 71998>>, <<72003, 72003>>,
      <<72148, 72151>>, <<72154, 72155>>, <<72160, 72160>>, <<72193, 72202>>,
      <<72243, 72248>>, <<72251, 72254>>, <<72263, 72263>>, <<72273, 72278>>,
      <<72281, 72283>>, <<72330, 72342>>, <<72344, 72345>>, <<72752, 72758>>,
      <<72760, 72765>>, <<72767, 72767>>, <<72850, 72871>>, <<72874, 72880>>,
      <<72882, 72883>>, <<72885, 72886>>, <<73009, 73014>>, <<73018, 73018>>,
      <<73020, 73021>>, <<73023, 73029>>, <<73031, 73031>>, <<73104, 73105>>,
      <<73109, 73109>>, <<73111, 73111>>, <<73459, 73460>>, <<78896, 78904>>,
      <<92912, 92916>>, <<92976, 92982>>, <<92992, 92995>>, <<94031, 94031>>,
      <<94095, 94111>>, <<94176, 94177>>, <<94179, 94180>>, <<110576, 110579>>,
      <<110581, 110587>>, <<110589, 110590>>, <<113821, 113822>>,
      <<113824, 113827>>, <<118528, 118573>>, <<118576, 118598>>,
      <<119143, 119145>>, <<119155, 119170>>, <<119173, 119179>>,
      <<119210, 119213>>, <<119362, 119364>>, <<121344, 121398>>,
      <<121403, 121452>>, <<121461, 121461>>, <<121476, 121476>>,
      <<121499, 121503>>, <<121505, 121519>>, <<122880, 122886>>,
      <<122888, 122904>>, <<122907, 122913>>, <<122915, 122916>>,
      <<122918, 122922>>, <<123184, 123197>>, <<123566, 123566>>,
      <<123628, 123631>>, <<125136, 125142>>, <<125252, 125259>>,
      <<127995, 127999>>, <<917505, 917505>>, <<917536, 917631>>,
      <<917760, 917999>>>>

\* \d of the re module (str patterns match Unicode decimal digits)
AsciiDigits == Range(DigitChars)
IsDigit(c) ==
    \/ c \in AsciiDigits
    \/ Len(c) > 1 /\ InRanges(CodePoint(c), DecimalRanges)
\* int(c) for a decimal digit c
DecimalValue(cp, ranges) ==
    (cp - ranges[CHOOSE i \in 1..Len(ranges) : ranges[i][1] <= cp /\ cp <= ranges[i][2]][1]) % 10
AsciiDigitVal == [c \in AsciiDigits |->
                     (CHOOSE i \in 1..Len(DigitChars) : DigitChars[i] = c) - 1]
DigitVal(c) ==
    IF c \in AsciiDigits
    THEN AsciiDigitVal[c]
    ELSE DecimalValue(CodePoint(c), DecimalRanges)
\* str.isspace() of one character, the characters str.strip() removes: the
\* ASCII whitespace and, written by their code points, the other characters
\* of Unicode that Python counts as whitespace.
Whitespace ==
    {" ", "\t", "\n", "\r", "\f", "\\x0b", "\\x1c", "\\x1d", "\\x1e", "\\x1f",
     "\\x85", "\\xa0", "\\u1680", "\\u2000", "\\u2001", "\\u2002", "\\u2003",
     "\\u2004", "\\u2005", "\\u2006", "\\u2007", "\\u2008", "\\u2009", "\\u200a",
     "\\u2028", "\\u2029", "\\u202f", "\\u205f", "\\u3000"}
IsSpace(c) == c \in Whitespace
\* \w of the re module (str patterns: Unicode letters, digits, numeric
\* characters and '_')
AsciiWordChars == Range(UpperLetters) \cup Range(LowerLetters) \cup AsciiDigits \cup {"_"}
IsWordChar(c) ==
    IF Len(c) = 1
    THEN c \in AsciiWordChars
    ELSE InRanges(CodePoint(c), WordRanges)

InRun(cp, run) == run[1] <= cp /\ cp <= run[2] /\ (cp - run[1]) % run[3] = 0
\* cp mapped by the run of the table that holds it; cp itself if none does
CaseMapped(cp, runs) ==
    IF \E i \in 1..Len(runs) : InRun(cp, runs[i])
    THEN cp + runs[CHOOSE i \in 1..Len(runs) : InRun(cp, runs[i])][4]
    ELSE cp
CharMapped(c, cp) == IF cp = CodePoint(c) THEN c ELSE CharOf(cp)

\* The lowercase of one character as one character (sre's tolower; the
\* first character of str.lower() of it)
AsciiUpper == Range(UpperLetters)
AsciiLower == Range(LowerLetters)
AsciiLetters == AsciiUpper \cup AsciiLower
AsciiLowerOf == [c \in AsciiUpper |->
                    LowerLetters[CHOOSE i \in 1..Len(UpperLetters) : UpperLetters[i] = c]]
AsciiUpperOf == [c \in AsciiLower |->
                    UpperLetters[CHOOSE i \in 1..Len(LowerLetters) : LowerLetters[i] = c]]
LowerChar(c) ==
    IF c \in AsciiUpper
    THEN AsciiLowerOf[c]
    ELSE IF Len(c) = 1 THEN c
    ELSE CharMapped(c, CaseMapped(CodePoint(c), LowerRuns))
\* The uppercase of one character whose uppercase is one character
UpperChar(c) ==
    IF c \in AsciiLower
    THEN AsciiUpperOf[c]
    ELSE IF Len(c) = 1 THEN c
    ELSE CharMapped(c, CaseMapped(CodePoint(c), UpperRuns))

\* The characters the lookback and the lookahead for a final sigma step
\* over, and those they stop at with a cased character found
IsCaseIgnorable(c) == InRanges(CodePoint(c), CaseIgnorableRanges)
IsCasedLetter(c) == InRanges(CodePoint(c), CasedRanges)
\* The capital sigma at position i of s ends a word: a cased character
\* comes before it and none after it, case-ignorable characters aside.
FinalSigma(s, i) ==
    /\ \E j \in 1..(i - 1) :
          /\ IsCasedLetter(s[j])
          /\ \A k \in (j + 1)..(i - 1) : IsCaseIgnorable(s[k])
    /\ ~\E j \in (i + 1)..Len(s) :
          /\ IsCasedLetter(s[j])
          /\ \A k \in (i + 1)..(j - 1) : IsCaseIgnorable(s[k])
\* str.lower() of the character at position i of s
LowerAt(s, i) ==
    IF s[i] = "\\u03a3"
    THEN (IF FinalSigma(s, i) THEN <<"\\u03c2">> ELSE <<"\\u03c3">>)
    ELSE IF s[i] = "\\u0130" THEN <<"i", "\\u0307">>
    ELSE <<LowerChar(s[i])>>
\* str.upper() of one character
SpecialUpper(cp) ==
    IF \E i \in 1..Len(UpperSpecial) : UpperSpecial[i][1] = cp
    THEN UpperSpecial[CHOOSE i \in 1..Len(UpperSpecial) : UpperSpecial[i][1] = cp][2]
    ELSE <<>>
CharsOf(cps) == [i \in 1..Len(cps) |-> CharOf(cps[i])]
UpperOf(c) ==
    IF Len(c) = 1 \/ SpecialUpper(CodePoint(c)) = <<>> THEN <<UpperChar(c)>>
    ELSE CharsOf(SpecialUpper(CodePoint(c)))

\* str.lower(), str.upper()
Lower(s) == Concat([i \in 1..Len(s) |-> LowerAt(s, i)])
Upper(s) == Concat([i \in 1..Len(s) |-> UpperOf(s[i])])

\* A literal character p of a pattern against the character c of the text
\* under re.IGNORECASE: a cased p matches the characters whose lowercase is
\* its own or one that the table of fixes gives for it; another p matches
\* itself only.
IsCased(c) ==
    IF Len(c) = 1 THEN c \in AsciiLetters
    ELSE LowerChar(c) # c \/ UpperOf(c) # <<c>>
FixesOf(cp) ==
    IF \E i \in 1..Len(CaseFixes) : CaseFixes[i][1] = cp
    THEN CaseFixes[CHOOSE i \in 1..Len(CaseFixes) : CaseFixes[i][1] = cp][2]
    ELSE <<>>
\* (no fix pairs two characters of ASCII)
MatchesLowered(lo, c) ==
    \/ c = lo
    \/ /\ Len(c) > 1 \/ Len(lo) > 1
       /\ CodePoint(c) \in Range(FixesOf(CodePoint(lo)))
MatchesIgnoreCase(p, c) ==
    IF IsCased(p) THEN MatchesLowered(LowerChar(p), LowerChar(c)) ELSE c = p

\* needle occurs in s at position i
OccursAt(needle, s, i) ==
    /\ i >= 1
    /\ i + Len(needle) - 1 <= Len(s)
    /\ \A k \in 1..Len(needle) : s[i + k - 1] = needle[k]

\* needle in s
Contains(s, needle) == \E i \in 1..(Len(s) + 1) : OccursAt(needle, s, i)

\* str.strip(): leading and trailing whitespace removed
RECURSIVE LStrip(_)
LStrip(s) == IF s # <<>> /\ IsSpace(Head(s)) THEN LStrip(Tail(s)) ELSE s
RECURSIVE RStrip(_)
RStrip(s) == IF s # <<>> /\ IsSpace(s[Len(s)]) THEN RStrip(SubSeq(s, 1, Len(s) - 1)) ELSE s
Strip(s) == RStrip(LStrip(s))

----------------------------------------------------------------------------
(* Numbers: Python floats (IEEE 754 binary64, round to nearest, ties to    *)
(* even)                                                                   *)

\* A natural number of any size is the sequence of its digits in base
\* LimbBase, least significant first, with no leading zero digit; <<>> is 0.
LimbBits == 15
LimbBase == 2^LimbBits

\* a without the zero digits above its highest digit that is not zero
BigTrim(a) ==
    SubSeq(a, 1, Len(a) - Cardinality({i \in 1..Len(a) : \A j \in i..Len(a) : a[j] = 0}))

RECURSIVE BigOfInt(_)
BigOfInt(n) == IF n = 0 THEN <<>> ELSE <<n % LimbBase>> \o BigOfInt(n \div LimbBase)

\* -1, 0 or 1 as a < b, a = b or a > b: numbers of the same length differ
\* as their digits at the highest position i where they differ.
BigCmpAt(a, b, i) == IF a[i] < b[i] THEN -1 ELSE 1
BigCmp(a, b) ==
    IF Len(a) < Len(b) THEN -1
    ELSE IF Len(a) > Len(b) THEN 1
    ELSE IF a = b THEN 0
    ELSE BigCmpAt(a, b, CHOOSE i \in 1..Len(a) :
                            a[i] # b[i] /\ \A j \in (i + 1)..Len(a) : a[j] = b[j])

\* Digit i of a, 0 above its highest digit
BigDigitAt(a, i) == IF i <= Len(a) THEN a[i] ELSE 0

\* The digits lo, ..., hi of a * k + s * b + c, for 0 <= k <= LimbBase and
\* s = 1 or s = -1, and the carry out of them (-1 for a borrow): the lower
\* half of the digits first, its carry going into the upper half.
BigCarryDigit(t) == [d |-> <<t % LimbBase>>, c |-> t \div LimbBase]
BigCarryJoin(low, high) == [d |-> low.d \o high.d, c |-> high.c]
RECURSIVE BigCarry(_, _, _, _, _, _, _)
RECURSIVE BigCarryHigh(_, _, _, _, _, _, _)
BigCarry(a, k, b, s, lo, hi, c) ==
    IF lo = hi
    THEN BigCarryDigit(BigDigitAt(a, lo) * k + s * BigDigitAt(b, lo) + c)
    ELSE BigCarryHigh(a, k, b, s, lo + ((hi - lo) \div 2) + 1, hi,
                      BigCarry(a, k, b, s, lo, lo + ((hi - lo) \div 2), c))
BigCarryHigh(a, k, b, s, lo, hi, low) ==
    BigCarryJoin(low, BigCarry(a, k, b, s, lo, hi, low.c))
BigCarried(r) == BigTrim(r.d \o BigOfInt(r.c))

\* a * k + s * b, which is not negative
BigLinear(a, k, b, s) ==
    IF a = <<>> /\ b = <<>> THEN <<>>
    ELSE BigCarried(BigCarry(a, k, b, s, 1, IF Len(a) > Len(b) THEN Len(a) ELSE Len(b), 0))

BigAdd(a, b) == BigLinear(a, 1, b, 1)

\* a - b for a >= b
BigSub(a, b) == BigLinear(a, 1, b, -1)

\* a * k for 0 <= k <= LimbBase
BigMulSmall(a, k) == BigLinear(a, k, <<>>, 1)

\* a * b: b is split into its low and its high digits
RECURSIVE BigMul(_, _)
BigMul(a, b) ==
    IF a = <<>> \/ b = <<>> THEN <<>>
    ELSE IF Len(b) = 1 THEN BigMulSmall(a, b[1])
    ELSE BigAdd(BigMul(a, BigTrim(SubSeq(b, 1, Len(b) \div 2))),
                [i \in 1..(Len(b) \div 2) |-> 0]
                    \o BigMul(a, SubSeq(b, (Len(b) \div 2) + 1, Len(b))))

\* Quotient and remainder of a by k, for 0 < k <= LimbBase. The digits
\* hi, ..., lo of a are brought down to the remainder r < k, the upper half
\* of them first: q holds as many digits of the quotient, r what remains.
BigDivJoin(low, high) == [q |-> low.q \o high.q, r |-> low.r]
RECURSIVE BigDivFrom(_, _, _, _, _)
RECURSIVE BigDivLow(_, _, _, _, _)
BigDivFrom(a, k, lo, hi, r) ==
    IF lo = hi
    THEN [q |-> <<(r * LimbBase + a[lo]) \div k>>, r |-> (r * LimbBase + a[lo]) % k]
    ELSE BigDivLow(a, k, lo, lo + ((hi - lo) \div 2),
                   BigDivFrom(a, k, lo + ((hi - lo) \div 2) + 1, hi, r))
BigDivLow(a, k, lo, mid, high) == BigDivJoin(BigDivFrom(a, k, lo, mid, high.r), high)
BigDivTrim(d) == [q |-> BigTrim(d.q), r |-> BigOfInt(d.r)]
BigDivSmall(a, k) ==
    IF a = <<>> THEN [q |-> <<>>, r |-> <<>>]
    ELSE BigDivTrim(BigDivFrom(a, k, 1, Len(a), 0))

RECURSIVE IntBitLen(_)
IntBitLen(n) == IF n = 0 THEN 0 ELSE 1 + IntBitLen(n \div 2)
\* int.bit_length()
BigBitLen(a) == IF a = <<>> THEN 0 ELSE LimbBits * (Len(a) - 1) + IntBitLen(a[Len(a)])

\* a * 2^k
BigShl(a, k) ==
    IF a = <<>> THEN <<>>
    ELSE BigMulSmall([i \in 1..(k \div LimbBits) |-> 0] \o a, 2^(k % LimbBits))

\* a \div 2^k
BigShr(a, k) ==
    IF k \div LimbBits >= Len(a) THEN <<>>
    ELSE BigDivSmall(SubSeq(a, (k \div LimbBits) + 1, Len(a)), 2^(k % LimbBits)).q

\* a % 2^k
BigLowBits(a, k) ==
    LET n == k \div LimbBits
    IN IF n >= Len(a) THEN a
       ELSE BigTrim(SubSeq(a, 1, n) \o <<a[n + 1] % 2^(k % LimbBits)>>)

\* bit i of a, bit 0 the least significant
BigBit(a, i) ==
    IF i \div LimbBits >= Len(a) THEN 0
    ELSE (a[(i \div LimbBits) + 1] \div 2^(i % LimbBits)) % 2

\* the number of zero bits below the lowest set bit of a # 0
RECURSIVE IntTrailingZeros(_)
IntTrailingZeros(n) == IF n % 2 = 1 THEN 0 ELSE 1 + IntTrailingZeros(n \div 2)
BigTrailingZerosAt(a, i) == LimbBits * (i - 1) + IntTrailingZeros(a[i])
BigTrailingZeros(a) ==
    BigTrailingZerosAt(a, CHOOSE i \in 1..Len(a) :
                              a[i] # 0 /\ \A j \in 1..(i - 1) : a[j] = 0)

\* The largest digit d with b * d <= r, for r < b * LimbBase: the bits of d
\* are settled from the highest (bit) to the lowest, d holding those settled.
RECURSIVE BigQuotientDigit(_, _, _, _)
BigQuotientDigit(r, b, d, bit) ==
    IF bit < 0 THEN d
    ELSE IF BigCmp(BigMulSmall(b, d + 2^bit), r) <= 0
         THEN BigQuotientDigit(r, b, d + 2^bit, bit - 1)
         ELSE BigQuotientDigit(r, b, d, bit - 1)

\* Long division by b with more than one digit: the digits hi, ..., lo of a
\* are brought down to the remainder r < b, the upper half of them first,
\* each giving one digit d of the quotient.
BigDivDigit(r, b, d) == [q |-> <<d>>, r |-> BigSub(r, BigMulSmall(b, d))]
BigDivStep(r, b) == BigDivDigit(r, b, BigQuotientDigit(r, b, 0, LimbBits - 1))
RECURSIVE BigDivDigits(_, _, _, _, _)
RECURSIVE BigDivDigitsLow(_, _, _, _, _)
BigDivDigits(a, b, lo, hi, r) ==
    IF lo = hi THEN BigDivStep(BigTrim(<<a[lo]>> \o r), b)
    ELSE BigDivDigitsLow(a, b, lo, lo + ((hi - lo) \div 2),
                         BigDivDigits(a, b, lo + ((hi - lo) \div 2) + 1, hi, r))
BigDivDigitsLow(a, b, lo, mid, high) ==
    BigDivJoin(BigDivDigits(a, b, lo, mid, high.r), high)
BigDivTrimQ(d) == [q |-> BigTrim(d.q), r |-> d.r]

\* quotient and remainder of a by b # 0: the digits of a above the lowest
\* Len(a) - Len(b) + 1 are less than b and start the remainder.
BigDivMod(a, b) ==
    IF Len(b) = 1 THEN BigDivSmall(a, b[1])
    ELSE IF Len(a) < Len(b) THEN [q |-> <<>>, r |-> a]
    ELSE BigDivTrimQ(BigDivDigits(a, b, 1, Len(a) - Len(b) + 1,
                                  SubSeq(a, Len(a) - Len(b) + 2, Len(a))))

\* A float is [neg |-> sign bit, m |-> odd natural (or 0), e |-> exponent]:
\* the number m * 2^e, negated when neg; equal floats of the same sign are
\* equal records. A finite float has at most DoublePrecision bits in m,
\* e >= MinExponent (the numbers below 2^-1022 are the subnormal ones, with
\* fewer bits) and its highest bit below 2^MaxExponent. The two records
\* whose highest bit is 2^MaxExponent stand for the encodings whose exponent
\* field is all ones: 1 * 2^1024 is inf (-inf when neg) and 3 * 2^1023 is nan.
DoublePrecision == 53
MaxExponent == 1024
MinExponent == -1074

\* float('inf'), float('-inf'), float('nan')
Infinity(neg) == [neg |-> neg, m |-> <<1>>, e |-> MaxExponent]
NaN == [neg |-> FALSE, m |-> <<3>>, e |-> MaxExponent - 1]
\* math.isinf(x), math.isnan(x)
FloatIsInf(x) == x.m = <<1>> /\ x.e = MaxExponent
FloatIsNaN(x) == x.m = <<3>> /\ x.e = MaxExponent - 1

\* The float of n * 2^e with n # 0, which has tz trailing zero bits and at
\* most DoublePrecision bits above them: inf from 2^MaxExponent on.
FloatShifted(neg, n, e, tz) ==
    IF BigBitLen(n) + e > MaxExponent THEN Infinity(neg)
    ELSE [neg |-> neg, m |-> BigShr(n, tz), e |-> e + tz]

\* The float of n * 2^e, exactly representable but for its size.
FloatExact(neg, n, e) ==
    IF n = <<>> THEN [neg |-> neg, m |-> <<>>, e |-> 0]
    ELSE FloatShifted(neg, n, e, BigTrailingZeros(n))

\* q * 2^e rounded: c is -1, 0 or 1 as the part cut off below q is less
\* than, equal to or more than half of 2^e; a tie goes up when something
\* more was cut off (sticky) or q is odd.
FloatNearest(neg, q, e, c, sticky) ==
    FloatExact(neg,
               IF c > 0 \/ (c = 0 /\ (sticky \/ BigBit(q, 0) = 1))
               THEN BigAdd(q, <<1>>) ELSE q,
               e)

\* n * 2^e rounded to the bits above the lowest sh bits of n
FloatRoundAt(neg, n, e, sticky, sh) ==
    IF sh <= 0 THEN FloatExact(neg, n, e)
    ELSE FloatNearest(neg, BigShr(n, sh), e + sh,
                      BigCmp(BigLowBits(n, sh), BigShl(<<1>>, sh - 1)), sticky)

\* The float nearest to n * 2^e (plus, when sticky, a positive amount below
\* 2^e), ties to the even significand: DoublePrecision bits are kept, fewer
\* where they would reach below 2^MinExponent (gradual underflow, down to
\* 0.0), and a result of 2^MaxExponent or more is inf. sticky requires n to
\* have more than DoublePrecision + 1 bits.
FloatRound(neg, n, e, sticky) ==
    FloatRoundAt(neg, n, e, sticky,
                 IF BigBitLen(n) - DoublePrecision > MinExponent - e
                 THEN BigBitLen(n) - DoublePrecision ELSE MinExponent - e)

\* float(n) for an int n
FloatOfInt(n) == FloatRound(n < 0, BigOfInt(IF n < 0 THEN 0 - n ELSE n), 0, FALSE)

\* 0.0
Zero == [neg |-> FALSE, m |-> <<>>, e |-> 0]
FloatIsZero(x) == x.m = <<>>
\* x < 0
FloatIsNegative(x) == x.neg /\ x.m # <<>>

\* The exponent of the bit above the highest bit of x # 0.
FloatTop(x) == BigBitLen(x.m) + x.e

\* |x| against |y| for nonzero floats whose highest bits are at tx and ty
FloatCmpTop(x, y, tx, ty) ==
    IF tx < ty THEN -1
    ELSE IF tx > ty THEN 1
    ELSE IF x.e >= y.e THEN BigCmp(BigShl(x.m, x.e - y.e), y.m)
    ELSE BigCmp(x.m, BigShl(y.m, y.e - x.e))

\* -1, 0 or 1 as |x| < |y|, |x| = |y| or |x| > |y|
FloatCmpAbs(x, y) ==
    IF x.m = <<>> \/ y.m = <<>>
    THEN (IF x.m = y.m THEN 0 ELSE IF x.m = <<>> THEN -1 ELSE 1)
    ELSE FloatCmpTop(x, y, FloatTop(x), FloatTop(y))

\* x < y (False when either is nan)
DecLess(x, y) ==
    IF FloatIsNaN(x) \/ FloatIsNaN(y) THEN FALSE
    ELSE IF FloatIsNegative(x)
    THEN ~FloatIsNegative(y) \/ FloatCmpAbs(x, y) > 0
    ELSE ~FloatIsNegative(y) /\ FloatCmpAbs(x, y) < 0

\* a * 2^e - b * 2^e rounded, the first with sign xneg and the second with
\* the other sign yneg; c is BigCmp(a, b). Equal amounts give 0.0.
FloatDifference(xneg, yneg, a, b, e, c) ==
    IF c = 0 THEN Zero
    ELSE FloatRound(IF c > 0 THEN xneg ELSE yneg,
                    IF c > 0 THEN BigSub(a, b) ELSE BigSub(b, a), e, FALSE)

\* The rounded sum of a * 2^e with sign xneg and b * 2^e with sign yneg
FloatSum(xneg, yneg, a, b, e) ==
    IF xneg = yneg THEN FloatRound(xneg, BigAdd(a, b), e, FALSE)
    ELSE FloatDifference(xneg, yneg, a, b, e, BigCmp(a, b))

\* x + y with both significands brought to the exponent e
FloatAddAt(x, y, e) == FloatSum(x.neg, y.neg, BigShl(x.m, x.e - e), BigShl(y.m, y.e - e), e)

\* x + y for nonzero floats whose highest bits are at tx and ty: an operand
\* more than 64 binary places below the other cannot change the rounded sum.
FloatAddTop(x, y, tx, ty) ==
    IF tx - ty > DoublePrecision + 11 THEN x
    ELSE IF ty - tx > DoublePrecision + 11 THEN y
    ELSE FloatAddAt(x, y, IF x.e < y.e THEN x.e ELSE y.e)

\* x + y: the exact sum, rounded; inf + -inf is nan.
DecAdd(x, y) ==
    IF FloatIsNaN(x) \/ FloatIsNaN(y) THEN NaN
    ELSE IF FloatIsInf(x) THEN (IF FloatIsInf(y) /\ x.neg # y.neg THEN NaN ELSE x)
    ELSE IF FloatIsInf(y) THEN y
    ELSE IF x.m = <<>> /\ y.m = <<>> THEN [neg |-> x.neg /\ y.neg, m |-> <<>>, e |-> 0]
    ELSE IF x.m = <<>> THEN y
    ELSE IF y.m = <<>> THEN x
    ELSE FloatAddTop(x, y, FloatTop(x), FloatTop(y))

\* x * k for an int 0 < k <= LimbBase
FloatTimes(x, k) ==
    IF FloatIsNaN(x) THEN NaN ELSE FloatRound(x.neg, BigMulSmall(x.m, k), x.e, FALSE)

\* value * 1000
Times1000(x) == FloatTimes(x, 1000)

\* The float nearest to q * 2^e (plus a positive amount below 2^e when the
\* division left a remainder), for d the quotient q and the remainder r
FloatOfDivision(neg, d, e) == FloatRound(neg, d.q, e, d.r # <<>>)

\* The float nearest to a / b * 2^e, the division done on a * 2^k
FloatQuotientAt(neg, a, b, e, k) == FloatOfDivision(neg, BigDivMod(BigShl(a, k), b), e - k)

\* The float nearest to the quotient of the naturals a and b # 0, times 2^e:
\* a is scaled so that the integer quotient has more than DoublePrecision + 1
\* bits, and a remainder makes the rounding sticky.
FloatQuotient(neg, a, b, e) ==
    IF a = <<>> THEN [neg |-> neg, m |-> <<>>, e |-> 0]
    ELSE FloatQuotientAt(neg, a, b, e,
                         IF DoublePrecision + 2 + BigBitLen(b) > BigBitLen(a)
                         THEN DoublePrecision + 2 + BigBitLen(b) - BigBitLen(a)
                         ELSE 0)

\* x / y for y # 0; inf / inf is nan
FloatDiv(x, y) ==
    IF FloatIsNaN(x) \/ FloatIsNaN(y) \/ (FloatIsInf(x) /\ FloatIsInf(y)) THEN NaN
    ELSE IF FloatIsInf(x) THEN Infinity(x.neg # y.neg)
    ELSE IF FloatIsInf(y) THEN [neg |-> x.neg # y.neg, m |-> <<>>, e |-> 0]
    ELSE FloatQuotient(x.neg # y.neg, x.m, y.m, x.e - y.e)

\* 5^n
RECURSIVE BigPow5(_)
BigPow5(n) ==
    IF n = 0 THEN <<1>>
    ELSE IF n = 1 THEN <<5>>
    ELSE BigMul(BigPow5(n \div 2), BigPow5(n - (n \div 2)))

\* 10^n
BigPow10(n) == BigShl(BigPow5(n), n)

\* The natural number a string of decimal digits writes (0 for ''): the
\* number of the first half of the digits, times ten to the number of the
\* others, plus the number of the others.
RECURSIVE BigOfDigits(_)
BigOfDigits(s) ==
    IF s = <<>> THEN <<>>
    ELSE IF Len(s) = 1 THEN BigOfInt(DigitVal(s[1]))
    ELSE BigAdd(BigMul(BigOfDigits(SubSeq(s, 1, Len(s) \div 2)),
                       BigPow10(Len(s) - (Len(s) \div 2))),
                BigOfDigits(SubSeq(s, (Len(s) \div 2) + 1, Len(s))))

\* float(s) for a string of digits, '.', '-' and ',' characters: ok is FALSE
\* where Python raises ValueError. The digits d with e of them after the
\* point write d / 10^e = (d / 5^e) * 2^-e, read as the nearest float.
PyFloat(s) ==
    LET neg  == s # <<>> /\ s[1] = "-"
        body == IF neg THEN Tail(s) ELSE s
        dots == SelectSeq(body, LAMBDA c : c = ".")
        digs == SelectSeq(body, IsDigit)
        ok   == Len(dots) <= 1 /\ Len(digs) >= 1 /\ Len(digs) + Len(dots) = Len(body)
        e    == IF Len(dots) = 1
                THEN Len(body) - (CHOOSE i \in 1..Len(body) : body[i] = ".")
                ELSE 0
    IN [ok |-> ok,
        val |-> IF ok THEN FloatQuotient(neg, BigOfDigits(digs), BigPow5(e), 0 - e)
                ELSE Zero]

\* re.sub(r'[^\d.-]', '', s)
StripNonNumeric(s) == SelectSeq(s, LAMBDA c : IsDigit(c) \/ c = "." \/ c = "-")

\* s.replace(',', '')
DropCommas(s) == SelectSeq(s, LAMBDA c : c # ",")

----------------------------------------------------------------------------
(* Roster of tracked securities (InstitutionalTracker.__init__) *)

NVDA == <<"N","V","D","A">>
AMZN == <<"A","M","Z","N">>
GOOGL == <<"G","O","O","G","L">>
MSFT == <<"M","S","F","T">>
AAPL == <<"A","A","P","L">>
TSLA == <<"T","S","L","A">>

\* self.target_tickers
target_tickers == <<NVDA, AMZN, GOOGL, MSFT, AAPL, TSLA>>

\* self.ticker_to_cusip, in insertion order
ticker_to_cusip ==
    <<<<NVDA, "67066G104">>, <<AMZN, "023135106">>, <<GOOGL, "02079K305">>,
      <<MSFT, "594918104">>, <<AAPL, "037833100">>, <<TSLA, "88160R101">>>>

\* self.ticker_to_cusip.get(ticker, '')
CusipOf(ticker) ==
    IF \E i \in 1..Len(ticker_to_cusip) : ticker_to_cusip[i][1] = ticker
    THEN ticker_to_cusip[CHOOSE i \in 1..Len(ticker_to_cusip) : ticker_to_cusip[i][1] = ticker][2]
    ELSE ""

CusipToTickerOrFirst(cusip) ==
    IF \E i \in 1..Len(ticker_to_cusip) : ticker_to_cusip[i][2] = cusip
    THEN ticker_to_cusip[CHOOSE i \in 1..Len(ticker_to_cusip) : ticker_to_cusip[i][2] = cusip][1]
    ELSE ticker_to_cusip[1][1]

\* _cusip_to_ticker: the inverted map, '' (the empty string) when absent
CusipToTicker(cusip) ==
    IF \E i \in 1..Len(ticker_to_cusip) : ticker_to_cusip[i][2] = cusip
    THEN ticker_to_cusip[CHOOSE i \in 1..Len(ticker_to_cusip) : ticker_to_cusip[i][2] = cusip][1]
    ELSE <<>>

----------------------------------------------------------------------------
(* _parse_xml_info_table *)

\* A filing document as BeautifulSoup presents it: unparseable, or the
\* sequence of holding tags found, each with the text of its name, cusip,
\* shares and value elements (Absent where the tag has no such element).
Absent == [present |-> FALSE, text |-> <<>>]
Text(t) == [present |-> TRUE, text |-> t]

\* shares_num and value_num of one holding tag: one try block converts both.
ConvertNumbers(shares, value) ==
    LET sh == PyFloat(StripNonNumeric(shares))
        va == PyFloat(StripNonNumeric(value))
    IN IF sh.ok /\ va.ok
       THEN [shares |-> sh.val, market_value |-> Times1000(va.val)]
       ELSE [shares |-> Zero, market_value |-> Zero]

\* not target_tickers or ticker in target_tickers
\*     or any(t.lower() in security_name.lower() for t in target_tickers)
IsTargetHolding(ticker, security_name, targets) ==
    \/ targets = <<>>
    \/ ticker \in Range(targets)
    \/ \E i \in 1..Len(targets) : Contains(Lower(security_name), Lower(targets[i]))

ParseHoldingTag(tag, targets) ==
    IF tag.name.present /\ tag.cusip.present
    THEN LET security_name == tag.name.text
             cusip  == tag.cusip.text
             shares == IF tag.shares.present THEN tag.shares.text ELSE <<"0">>
             value  == IF tag.value.present THEN tag.value.text ELSE <<"0">>
             nums   == ConvertNumbers(shares, value)
             ticker == CusipToTicker(cusip)
         IN IF IsTargetHolding(ticker, security_name, targets)
            THEN <<[security_name |-> security_name,
                    cusip         |-> cusip,
                    ticker        |-> ticker,
                    shares        |-> nums.shares,
                    market_value  |-> nums.market_value]>>
            ELSE <<>>
    ELSE <<>>

RECURSIVE ParseHoldingTags(_, _)
ParseHoldingTags(tags, targets) ==
    IF tags = <<>> THEN <<>>
    ELSE ParseHoldingTag(Head(tags), targets) \o ParseHoldingTags(Tail(tags), targets)

\* targets is <<>> where the caller passes None
ParseXmlInfoTable(doc, targets) ==
    IF doc.kind = "unparseable" THEN <<>>
    ELSE ParseHoldingTags(doc.tags, targets)

----------------------------------------------------------------------------
(* _extract_holdings_from_text *)

\* \b at the gap before position i of s (1 <= i <= Len(s) + 1)
WordBoundary(s, i) ==
    LET before == i > 1 /\ IsWordChar(s[i - 1])
        after  == i <= Len(s) /\ IsWordChar(s[i])
    IN before # after

\* The literal characters of pattern match s from position i on, under
\* re.IGNORECASE
MatchesAt(pattern, s, i) ==
    /\ i >= 1
    /\ i + Len(pattern) - 1 <= Len(s)
    /\ \A k \in 1..Len(pattern) : MatchesIgnoreCase(pattern[k], s[i + k - 1])

\* re.search(rf'\b{ticker}\b', line, re.IGNORECASE), for a ticker of
\* characters that are literals of a pattern (letters and digits)
SearchWord(line, ticker) ==
    \E i \in 1..(Len(line) + 1) :
        /\ MatchesAt(ticker, line, i)
        /\ WordBoundary(line, i)
        /\ WordBoundary(line, i + Len(ticker))

\* re.search(pattern, line, re.IGNORECASE) for a pattern of literals
SearchLiteral(line, pattern) == \E i \in 1..(Len(line) + 1) : MatchesAt(pattern, line, i)

\* the first of the three ticker patterns that matches decides; all three
\* lead to the same body
MatchesTicker(line, ticker) ==
    \/ SearchWord(line, ticker)
    \/ SearchLiteral(line, Lower(ticker))
    \/ SearchLiteral(line, Upper(ticker))

\* End of the longest run of digits starting at i (first position after it).
RECURSIVE DigitsEnd(_, _)
DigitsEnd(s, i) == IF i <= Len(s) /\ IsDigit(s[i]) THEN DigitsEnd(s, i + 1) ELSE i

\* (?:,\d{3})* from position i
RECURSIVE GroupsEnd(_, _)
GroupsEnd(s, i) ==
    IF /\ i + 3 <= Len(s)
       /\ s[i] = ","
       /\ IsDigit(s[i + 1]) /\ IsDigit(s[i + 2]) /\ IsDigit(s[i + 3])
    THEN GroupsEnd(s, i + 4)
    ELSE i

\* (?:\.\d+)? from position i
FractionEnd(s, i) ==
    IF i + 1 <= Len(s) /\ s[i] = "." /\ IsDigit(s[i + 1]) THEN DigitsEnd(s, i + 1) ELSE i

\* re.findall(r'\d+(?:,\d{3})*(?:\.\d+)?', s) scanning from position i
RECURSIVE FindNumbersFrom(_, _)
FindNumbersFrom(s, i) ==
    IF i > Len(s) THEN <<>>
    ELSE IF IsDigit(s[i])
         THEN LET j == FractionEnd(s, GroupsEnd(s, DigitsEnd(s, i)))
              IN <<SubSeq(s, i, j - 1)>> \o FindNumbersFrom(s, j)
         ELSE FindNumbersFrom(s, i + 1)

FindNumbers(s) == FindNumbersFrom(s, 1)

\* float(numbers[0].replace(',', ''))
TextShares(numbers) == PyFloat(DropCommas(numbers[1])).val

\* float(numbers[-1].replace(',', '')) * 1000 if len(numbers) > 1 else 0
TextMarketValue(numbers) ==
    IF Len(numbers) > 1
    THEN Times1000(PyFloat(DropCommas(numbers[Len(numbers)])).val)
    ELSE Zero

\* the holdings one stripped, non-empty line gives for the tickers searched
RECURSIVE LineHoldings(_, _)
LineHoldings(line, tickers) ==
    IF tickers = <<>> THEN <<>>
    ELSE LET ticker  == Head(tickers)
             numbers == FindNumbers(line)
         IN (IF MatchesTicker(line, ticker) /\ numbers # <<>>
             THEN <<[security_name |-> line,
                     cusip         |-> CusipOf(ticker),
                     ticker        |-> ticker,
                     shares        |-> TextShares(numbers),
                     market_value  |-> TextMarketValue(numbers),
                     raw_line      |-> line]>>
             ELSE <<>>) \o LineHoldings(line, Tail(tickers))

RECURSIVE TextHoldings(_, _)
TextHoldings(lines, tickers) ==
    IF lines = <<>> THEN <<>>
    ELSE LET line == Strip(Head(lines))
         IN (IF line = <<>> THEN <<>> ELSE LineHoldings(line, tickers))
            \o TextHoldings(Tail(lines), tickers)

\* filing_text is the sequence of its lines (filing_text.split('\n'));
\* targets is <<>> where the caller passes None
ExtractHoldingsFromText(filing_text, targets) ==
    TextHoldings(filing_text, IF targets = <<>> THEN target_tickers ELSE targets)

----------------------------------------------------------------------------
(* Requests to the archive host and time.sleep *)

\* requests.get(url, headers=self.headers, timeout=15)
Request ==
    /\ requested' = TRUE
    /\ slept' = FALSE
    /\ unthrottled' = (unthrottled \/ (requested /\ ~slept))

\* time.sleep(seconds)
Sleep ==
    /\ slept' = TRUE
    /\ UNCHANGED <<requested, unthrottled>>

InitNet ==
    /\ requested = FALSE
    /\ slept = FALSE
    /\ unthrottled = FALSE

----------------------------------------------------------------------------
(* Documents the archive serves to the cascade *)

TagNvidia ==
    [name |-> Text(<<"N","V","I","D","I","A"," ","C","O","R","P">>), cusip |-> Text("67066G104"),
     shares |-> Text(<<"1",",","0","0","0">>), value |-> Text(<<"5","0","0">>)]
TagApple ==
    [name |-> Text(<<"A","P","P","L","E"," ","I","N","C">>), cusip |-> Text("037833100"),
     shares |-> Text(<<"n","/","a">>), value |-> Text(<<"$","2",".","5">>)]
TagByName ==
    [name |-> Text(<<"N","v","d","a"," ","C","l"," ","A">>), cusip |-> Text("000000000"),
     shares |-> Text(<<"7","0">>), value |-> Absent]
TagNoCusip ==
    [name |-> Text(<<"N","V","I","D","I","A"," ","C","O","R","P">>), cusip |-> Absent,
     shares |-> Text(<<"5">>), value |-> Text(<<"5">>)]

TagFootnote ==
    [name |-> Text(<<"N","V","I","D","I","A"," ","C","O","R","P">>), cusip |-> Text("67066G104"),
     shares |-> Text(<<"(","1",")">>), value |-> Text(<<"$","1",",","0","0","0">>)]
TagNegative ==
    [name |-> Text(<<"N","V","I","D","I","A"," ","C","O","R","P">>), cusip |-> Text("67066G104"),
     shares |-> Text(<<"-","5">>), value |-> Text(<<"1",",","2","3","4",".","5">>)]

TagValueUnknown ==
    [name |-> Text(<<"N","V","I","D","I","A"," ","C","O","R","P">>), cusip |-> Text("67066G104"),
     shares |-> Text(<<"1",",","0","0","0">>), value |-> Text(<<"N","/","A">>)]

\* The name in fullwidth letters and the numbers in fullwidth digits
TagFullwidth ==
    [name |-> Text(<<"\\uff2e","\\uff36","\\uff24","\\uff21">>), cusip |-> Text("67066G104"),
     shares |-> Text(<<"\\uff11","\\uff12">>), value |-> Text(<<"\\uff15">>)]

SampleTags == {TagNvidia, TagApple, TagByName, TagNoCusip, TagFootnote, TagNegative,
               TagValueUnknown, TagFullwidth}

LineNvidia == <<"N","V","D","A"," ","1",",","0","0","0"," ","5","0","0">>
LineInside == <<" ","e","n","v","d","a","l"," ","7"," ">>
LineNoNumber == <<"n","v","d","a">>
LineBlank == <<" "," ">>
LineTabbed == <<"\t","N","V","D","A"," ","5","\r">>
\* 'NVDA \u0663\u0664': the digits three and four of the Arabic script
LineArabic == <<"N","V","D","A"," ","\\u0663","\\u0664">>

SampleLines == {LineNvidia, LineInside, LineNoNumber, LineBlank, LineTabbed, LineArabic}

Unparseable == [kind |-> "unparseable", tags |-> <<>>]
XmlDoc(tags) == [kind |-> "xml", tags |-> tags]

\* The documents the archive serves during a whole historical run; a bulk
\* archive has lost the documents of its filings, a thin archive has one
\* table, reporting two securities, and one text for every filing.
RunDocs(k) ==
    IF archive = "bulk"
    THEN {}
    ELSE IF archive = "thin"
    THEN (IF k <= 2 THEN {XmlDoc(<<TagNvidia, TagApple>>)} ELSE {<<LineNvidia>>})
    ELSE IF k <= 2 THEN {Unparseable, XmlDoc(<<TagNvidia>>)} ELSE {<<LineNvidia>>}

\* TRUE iff a document request may end in a transport error; the bulk
\* archive answers every document request, with status 404.
DocumentRequestMayRaise == archive # "bulk"

\* The documents the archive may serve for strategy k.
CascadeDocs(k) ==
    IF entry \in HistoricalEntries THEN RunDocs(k)
    ELSE IF k <= 2
         THEN {Unparseable} \cup {XmlDoc(ts) : ts \in SeqsUpTo(SampleTags, MaxTags)}
         ELSE SeqsUpTo(SampleLines, MaxLines)

\* The target_tickers arguments the cascade harness passes (<<>> is None).
CascadeTargets == {<<NVDA>>, <<AAPL, NVDA>>, <<>>}

----------------------------------------------------------------------------
(* parse_13f_holdings *)

\* infotable.xml, primary_doc.xml, {accession_number}.txt
DocName(k) == <<"infotable.xml", "primary_doc.xml", "accession.txt">>[k]

\* The parser paired with strategy k.
ParseDocument(k, doc, targets) ==
    IF k <= 2 THEN ParseXmlInfoTable(doc, targets)
    ELSE ExtractHoldingsFromText(doc, targets)

ShortCircuitNever(h) == FALSE

\* if holdings: return holdings
ShortCircuits(h) == h # <<>>

CascadePropagates == FALSE

\* The try block of parse_13f_holdings encloses all three strategies and its
\* handler (except Exception: print) falls through to return holdings.
CascadeCatches == TRUE

\* Where control goes when the cascade ends.
CascadeReturnPc == IF entry = "cascade" THEN "done" ELSE "run_collect"

\* The response of a request that did not raise; text is the document of a
\* 200 response as the strategy's parser receives it.
NoText == [xml |-> Unparseable, lines |-> <<>>]
NoResponse == [strategy |-> 0, status_code |-> 0, text |-> NoText]
Response(k, status_code, doc) ==
    [strategy |-> k, status_code |-> status_code,
     text |-> IF status_code # 200 THEN NoText
              ELSE IF k <= 2 THEN [xml |-> doc, lines |-> <<>>]
              ELSE [xml |-> Unparseable, lines |-> doc]]

LogDocument(outcome, h) ==
    cascade_log' = Append(cascade_log,
                          [doc |-> DocName(strategy), outcome |-> outcome, holdings |-> h])

\* return holdings
CascadeReturn(h) ==
    /\ parse_outcome' = "returned"
    /\ parse_result' = h
    /\ pc' = CascadeReturnPc
    /\ UNCHANGED strategy

\* Control after a strategy that did not return: the next strategy, or the
\* final return holdings after the third.
CascadeFallThrough(h) ==
    IF strategy < 3
    THEN /\ strategy' = strategy + 1
         /\ UNCHANGED <<pc, parse_outcome, parse_result>>
    ELSE CascadeReturn(h)

\* requests.get raises (timeout, connection error): control leaves the try
\* block for its handler.
StrategyRaise ==
    /\ pc = "parse_fetch"
    /\ DocumentRequestMayRaise
    /\ Request
    /\ LogDocument("raise", <<>>)
    /\ IF CascadeCatches
       THEN CascadeReturn(holdings)
       ELSE /\ parse_outcome' = "raised"
            /\ pc' = CascadeReturnPc
            /\ UNCHANGED <<parse_result, strategy>>
    /\ UNCHANGED <<entry, archive, utilityVars, trackVars, summaryVars, crawlVars, runVars, accession_number, tickers_arg, holdings,
                   response>>

\* The response status is not 200: the strategy is skipped.
StrategyNon200 ==
    /\ pc = "parse_fetch"
    /\ Request
    /\ LogDocument("non200", <<>>)
    /\ response' = Response(strategy, 404, <<>>)
    /\ CascadeFallThrough(holdings)
    /\ UNCHANGED <<entry, archive, utilityVars, trackVars, summaryVars, crawlVars, runVars, accession_number, tickers_arg, holdings>>

\* The response status is 200: the document is parsed.
StrategyOk ==
    /\ pc = "parse_fetch"
    /\ Request
    /\ \E doc \in CascadeDocs(strategy) :
          LET h == ParseDocument(strategy, doc, tickers_arg)
          IN /\ holdings' = h
             /\ response' = Response(strategy, 200, doc)
             /\ LogDocument("ok", h)
             /\ IF ShortCircuits(h) THEN CascadeReturn(h) ELSE CascadeFallThrough(h)
    /\ UNCHANGED <<entry, archive, utilityVars, trackVars, summaryVars, crawlVars, runVars, accession_number, tickers_arg>>

CascadeNext ==
    \/ StrategyRaise
    \/ StrategyNon200
    \/ StrategyOk

InitRepairIdle ==
    /\ xml_content = <<>>
    /\ repair_log = <<>>

InitLookupIdle ==
    /\ lookup_query = [ticker |-> <<>>, cusip |-> ""]
    /\ lookup_resolved = [ticker |-> <<>>, cusip |-> ""]
    /\ lookup_back = [ticker |-> <<>>, cusip |-> ""]

InitSchedulerIdle ==
    /\ day_of_week = 0
    /\ hour = 0
    /\ existing = {}
    /\ flaky = {}
    /\ batch = "none"
    /\ script_idx = 1
    /\ successful_runs = 0
    /\ daily_success = 0
    /\ cwd = <<>>
    /\ original_cwd = <<>>
    /\ sched_log = <<>>

InitUtilityIdle == InitRepairIdle /\ InitLookupIdle /\ InitSchedulerIdle

InitDatasetIdle ==
    /\ ticker_list = <<>>
    /\ tickers_idx = 1
    /\ phase = "none"
    /\ major_idx = 1
    /\ smart_money_summary = <<>>
    /\ current_data = <<>>
    /\ timeline_data = <<>>
    /\ institution_analysis = <<>>
    /\ output_dir = <<>>

InitTrackIdle ==
    /\ track_tickers = <<>>
    /\ ticker_idx = 1
    /\ disk = <<>>
    /\ track_log = <<>>
    /\ institution_idx = 1
    /\ institution_data = <<>>
    /\ tracking_file = [exists |-> FALSE, rows |-> <<>>]
    /\ institution_df = <<>>
    /\ InitDatasetIdle

InitRunIdle ==
    /\ run_ticker = <<>>
    /\ inst_idx = 1
    /\ filings_to_process = <<>>
    /\ filing_idx = 1
    /\ all_historical_holdings = <<>>
    /\ visited = <<>>
    /\ run_log = <<>>

InitCascadeIdle ==
    /\ accession_number = <<>>
    /\ tickers_arg = <<>>
    /\ strategy = 1
    /\ holdings = <<>>
    /\ parse_outcome = "none"
    /\ parse_result = <<>>
    /\ cascade_log = <<>>
    /\ response = NoResponse

InitSummaryIdle ==
    /\ holdings_df = <<>>
    /\ summary_data = <<>>

InitCrawlIdle ==
    /\ tracker = "InstitutionalTracker"
    /\ now_year \in ClockYears
    /\ cik \in CrawlCiks
    /\ start_year = 0
    /\ end_year = 0
    /\ years_back = 0
    /\ files = <<>>
    /\ file_idx = 1
    /\ all_filings = <<>>
    /\ crawl_result = <<>>
    /\ index_log = [outcome |-> "none", recent |-> NoData]
    /\ shard_log = <<>>

InitCascade ==
    /\ entry = "cascade"
    /\ archive = "sparse"
    /\ pc = "parse_fetch"
    /\ InitCrawlIdle
    /\ accession_number = Accession(cik, 0, 1)
    /\ tickers_arg \in CascadeTargets
    /\ strategy = 1
    /\ holdings = <<>>
    /\ parse_outcome = "none"
    /\ parse_result = <<>>
    /\ cascade_log = <<>>
    /\ response = NoResponse
    /\ InitRunIdle
    /\ InitSummaryIdle
    /\ InitNet
    /\ InitUtilityIdle
    /\ InitTrackIdle

SpecCascade == InitCascade /\ [][CascadeNext]_vars

----------------------------------------------------------------------------
(* get_historical_13f_filings / get_comprehensive_13f_history *)

\* Where control goes when the crawl returns.
CrawlReturnPc ==
    IF entry = "crawl" THEN "done"
    ELSE IF entry \in DatasetEntries
    THEN (IF phase = "analysis" THEN "analysis_collect" ELSE "timeline_collect")
    ELSE "run_select"

\* The index request fails: non-200 status, or an exception raised by the
\* request or by response.json(); the function returns [].
CrawlIndexFail ==
    /\ pc = "crawl_index"
    /\ \E outcome \in {"non200", "raise"} :
          index_log' = [outcome |-> outcome, recent |-> NoData]
    /\ Request
    /\ crawl_result' = <<>>
    /\ pc' = CrawlReturnPc
    /\ UNCHANGED <<entry, archive, utilityVars, trackVars, summaryVars, cascadeVars, runVars, tracker, now_year, cik, start_year, end_year, years_back, files, file_idx,
                   all_filings, shard_log>>

\* The index request succeeds: the recent list is processed and the shard
\* loop starts.
CrawlIndexOk ==
    /\ pc = "crawl_index"
    /\ \E recent \in ServedLists(cik, 0), n \in ListedShards :
          /\ index_log' = [outcome |-> "ok", recent |-> recent]
          /\ all_filings' = FilterFilings(recent)
          /\ files' = n
    /\ Request
    /\ file_idx' = 1
    /\ pc' = "crawl_shard"
    /\ UNCHANGED <<entry, archive, utilityVars, trackVars, summaryVars, cascadeVars, runVars, tracker, now_year, cik, start_year, end_year, years_back, crawl_result, shard_log>>

\* The except clause inside the shard loop (lines 98-100; simplified 63-65):
\* print(f"Error fetching archive {file_info['name']}: ..."), then continue.
\* The print evaluates file_info['name'] again: for a reference without
\* 'name' it raises KeyError inside the handler, the exception leaves the
\* loop and the handler of the whole function returns [].
ShardExceptContinues(file_info) == HasName(file_info)

LogShard(outcome, data) ==
    shard_log' = Append(shard_log,
                        [name |-> file_idx, outcome |-> outcome, data |-> data,
                         delayed |-> slept])

\* Shard request answered 200 with a filing list: processed and appended.
CrawlShardOk ==
    /\ pc = "crawl_shard"
    /\ file_idx <= Len(files)
    /\ HasName(files[file_idx])
    /\ \E data \in ServedLists(cik, file_idx) :
          /\ LogShard("ok", data)
          /\ all_filings' = all_filings \o FilterFilings(data)
    /\ Request
    /\ pc' = "crawl_sleep"
    /\ UNCHANGED <<entry, archive, utilityVars, trackVars, summaryVars, cascadeVars, runVars, tracker, now_year, cik, start_year, end_year, years_back, files, file_idx,
                   crawl_result, index_log>>

\* Shard request answered with a non-200 status: nothing is appended.
CrawlShardNon200 ==
    /\ pc = "crawl_shard"
    /\ file_idx <= Len(files)
    /\ HasName(files[file_idx])
    /\ LogShard("non200", NoData)
    /\ Request
    /\ pc' = "crawl_sleep"
    /\ UNCHANGED <<entry, archive, utilityVars, trackVars, summaryVars, cascadeVars, runVars, tracker, now_year, cik, start_year, end_year, years_back, files, file_idx,
                   all_filings, crawl_result, index_log>>

\* What the handler of one shard iteration does with the exception raised
\* for reference file_info: the loop goes on, or the function returns [].
ShardHandler(file_info) ==
    IF ShardExceptContinues(file_info)
    THEN /\ pc' = "crawl_shard"
         /\ file_idx' = file_idx + 1
         /\ UNCHANGED crawl_result
    ELSE /\ pc' = CrawlReturnPc
         /\ crawl_result' = <<>>
         /\ UNCHANGED file_idx

\* The shard request raises (timeout, connection error), or the 200 response
\* cannot be decoded: the handler of the iteration runs.
CrawlShardRaise ==
    /\ pc = "crawl_shard"
    /\ file_idx <= Len(files)
    /\ HasName(files[file_idx])
    /\ \E outcome \in {"raise", "undecodable"} : LogShard(outcome, NoData)
    /\ Request
    /\ ShardHandler(files[file_idx])
    /\ UNCHANGED <<entry, archive, utilityVars, trackVars, summaryVars, cascadeVars, runVars, tracker, now_year, cik, start_year, end_year, years_back, files,
                   all_filings, index_log>>

\* The reference has no 'name': building archive_url raises KeyError before
\* any request is sent, and the handler of the iteration runs.
CrawlShardNameless ==
    /\ pc = "crawl_shard"
    /\ file_idx <= Len(files)
    /\ ~HasName(files[file_idx])
    /\ ShardHandler(files[file_idx])
    /\ UNCHANGED <<entry, archive, utilityVars, trackVars, summaryVars, cascadeVars, runVars, tracker, now_year, cik, start_year, end_year, years_back, files,
                   all_filings, index_log, shard_log, netVars>>

\* time.sleep(0.2) at the end of the try body of one shard iteration.
CrawlSleep ==
    /\ pc = "crawl_sleep"
    /\ Sleep
    /\ file_idx' = file_idx + 1
    /\ pc' = "crawl_shard"
    /\ UNCHANGED <<entry, archive, utilityVars, trackVars, summaryVars, cascadeVars, runVars, tracker, now_year, cik, start_year, end_year, years_back, files,
                   all_filings, crawl_result, index_log, shard_log>>

\* The shard loop is over: sort newest first and return.
CrawlSortReturn ==
    /\ pc = "crawl_shard"
    /\ file_idx > Len(files)
    /\ crawl_result' = SortFilings(all_filings)
    /\ pc' = CrawlReturnPc
    /\ UNCHANGED <<entry, archive, utilityVars, trackVars, summaryVars, cascadeVars, runVars, tracker, now_year, cik, start_year, end_year, years_back, files, file_idx,
                   all_filings, index_log, shard_log, netVars>>

CrawlNext ==
    \/ CrawlIndexFail
    \/ CrawlIndexOk
    \/ CrawlShardOk
    \/ CrawlShardNon200
    \/ CrawlShardRaise
    \/ CrawlShardNameless
    \/ CrawlSleep
    \/ CrawlSortReturn

InitCrawl ==
    /\ entry = "crawl"
    /\ archive = "sparse"
    /\ pc = "crawl_index"
    /\ cik \in CrawlCiks
    /\ now_year \in ClockYears
    /\ \/ /\ tracker = "InstitutionalTracker"
          /\ \E r \in CrawlYearRanges : start_year = r[1] /\ end_year = r[2]
          /\ years_back = 0
       \/ /\ tracker = "SimplifiedInstitutionalTracker"
          /\ years_back \in CrawlYearsBack
          /\ start_year = 0
          /\ end_year = 0
    /\ files = <<>>
    /\ file_idx = 1
    /\ all_filings = <<>>
    /\ crawl_result = <<>>
    /\ index_log = [outcome |-> "none", recent |-> NoData]
    /\ shard_log = <<>>
    /\ InitCascadeIdle
    /\ InitRunIdle
    /\ InitSummaryIdle
    /\ InitNet
    /\ InitUtilityIdle
    /\ InitTrackIdle

SpecCrawl == InitCrawl /\ [][CrawlNext]_vars

----------------------------------------------------------------------------
(* get_major_institutions *)

\* The dictionary literal in insertion order; the repeated key 0001364742
\* keeps its first position.
MajorInstitutions ==
    <<<<"0001067983", "Berkshire Hathaway Inc">>,
      <<"0001364742", "Vanguard Group Inc">>,
      <<"0000950123", "BlackRock Inc">>,
      <<"0001418814", "State Street Corp">>,
      <<"0000315066", "Fidelity Management & Research">>,
      <<"0001159556", "T. Rowe Price Associates Inc">>,
      <<"0000820932", "Capital Research Global Investors">>,
      <<"0001011006", "Northern Trust Corp">>,
      <<"0000929351", "Goldman Sachs Group Inc">>,
      <<"0000886982", "Invesco Ltd">>,
      <<"0001019687", "Wellington Management Co">>,
      <<"0000902165", "Dimensional Fund Advisors">>,
      <<"0001166559", "Ark Investment Management LLC">>>>

----------------------------------------------------------------------------
(* get_historical_holdings_for_ticker *)

InstitutionLimit == 3
RecentFromYear == 2020
RecentLimit == 20
OlderStride == 4
FilingLimit == 50
DefaultStartYear == 2005

\* s[:n]
Take(s, n) == SubSeq(s, 1, IF Len(s) < n THEN Len(s) ELSE n)

\* s[::n]
EveryNth(s, n) == [i \in 1..((Len(s) + n - 1) \div n) |-> s[(i - 1) * n + 1]]


\* list(major_institutions.items())[:3]
SelectedInstitutions == Take(MajorInstitutions, InstitutionLimit)

\* [f for f in historical_filings if f['filing_year'] >= 2020][:20]
RecentFilings(hf) ==
    Take(SelectSeq(hf, LAMBDA f : f.filing_year >= RecentFromYear), RecentLimit)

OlderFilingsAll(hf) == SelectSeq(hf, LAMBDA f : f.filing_year < RecentFromYear)

\* [f for f in historical_filings if f['filing_year'] < 2020][::4]
OlderFilings(hf) ==
    EveryNth(SelectSeq(hf, LAMBDA f : f.filing_year < RecentFromYear), OlderStride)

\* (recent_filings + older_filings)[:50]
FilingsToProcess(hf) == Take(RecentFilings(hf) \o OlderFilings(hf), FilingLimit)

WithProvenanceOfName(h, inst, filing) ==
    [institution_name |-> inst[2],
     institution_cik  |-> inst[2],
     filing_date      |-> filing.filing_date,
     filing_year      |-> filing.filing_year,
     accession_number |-> filing.accession_number] @@ h

\* holding.update({...}) with the fields of the filing being processed
WithProvenance(h, inst, filing) ==
    [institution_name |-> inst[2],
     institution_cik  |-> inst[1],
     filing_date      |-> filing.filing_date,
     filing_year      |-> filing.filing_year,
     accession_number |-> filing.accession_number] @@ h

StopsAtEmptyFiling(h) == h # <<>>

\* The loop over the filings goes on to the next filing whatever the
\* cascade returned.
ContinuesBatch(h) == TRUE

\* Loop head of the institutions: call the crawler for the next institution.
RunCrawlInstitution ==
    /\ pc = "run_institution"
    /\ inst_idx <= Len(SelectedInstitutions)
    /\ cik' = SelectedInstitutions[inst_idx][1]
    /\ tracker' = "InstitutionalTracker"
    /\ start_year' = DefaultStartYear
    /\ end_year' = now_year
    /\ files' = <<>>
    /\ file_idx' = 1
    /\ all_filings' = <<>>
    /\ crawl_result' = <<>>
    /\ index_log' = [outcome |-> "none", recent |-> NoData]
    /\ shard_log' = <<>>
    /\ visited' = Append(visited, SelectedInstitutions[inst_idx][1])
    /\ run_log' = <<>>
    /\ pc' = "crawl_index"
    /\ UNCHANGED <<entry, archive, utilityVars, trackVars, summaryVars, now_year, years_back, cascadeVars, netVars, run_ticker, inst_idx,
                   filings_to_process, filing_idx, all_historical_holdings>>

\* The crawler returned: choose the filings to process.
RunSelectFilings ==
    /\ pc = "run_select"
    /\ filings_to_process' = FilingsToProcess(crawl_result)
    /\ filing_idx' = 1
    /\ pc' = "run_filing"
    /\ files' = <<>>
    /\ file_idx' = 1
    /\ all_filings' = <<>>
    /\ shard_log' = <<>>
    /\ UNCHANGED <<entry, archive, utilityVars, trackVars, summaryVars, tracker, now_year, cik, start_year, end_year, years_back,
                   crawl_result, index_log, cascadeVars, netVars, run_ticker, inst_idx,
                   all_historical_holdings, visited, run_log>>

\* Loop head of the filings: call the cascade on the next filing.
RunParseFiling ==
    /\ pc = "run_filing"
    /\ filing_idx <= Len(filings_to_process)
    /\ accession_number' = filings_to_process[filing_idx].accession_number
    /\ tickers_arg' = <<run_ticker>>
    /\ strategy' = 1
    /\ holdings' = <<>>
    /\ parse_outcome' = "none"
    /\ parse_result' = <<>>
    /\ cascade_log' = <<>>
    /\ response' = NoResponse
    /\ pc' = "parse_fetch"
    /\ UNCHANGED <<entry, archive, utilityVars, trackVars, summaryVars, crawlVars, runVars, netVars>>

\* The cascade ended: the holdings it returned are stamped with the filing's
\* provenance and appended, then time.sleep(0.3); if it raised, the handler
\* of the filing runs (print; continue).
RunCollect ==
    /\ pc = "run_collect"
    /\ LET inst   == SelectedInstitutions[inst_idx]
           filing == filings_to_process[filing_idx]
           got    == IF parse_outcome = "returned" THEN parse_result ELSE <<>>
       IN /\ all_historical_holdings' =
                all_historical_holdings \o
                [i \in 1..Len(got) |-> WithProvenance(got[i], inst, filing)]
          /\ run_log' = Append(run_log,
                               [accession_number |-> filing.accession_number,
                                raised  |-> \E i \in 1..Len(cascade_log) :
                                               cascade_log[i].outcome = "raise",
                                yielded |-> Len(got)])
          /\ filing_idx' = IF ContinuesBatch(got) THEN filing_idx + 1
                           ELSE Len(filings_to_process) + 1
    /\ IF parse_outcome = "returned" THEN Sleep ELSE UNCHANGED netVars
    /\ pc' = "run_filing"
    /\ accession_number' = <<>>
    /\ tickers_arg' = <<>>
    /\ strategy' = 1
    /\ holdings' = <<>>
    /\ parse_outcome' = "none"
    /\ parse_result' = <<>>
    /\ cascade_log' = <<>>
    /\ response' = NoResponse
    /\ UNCHANGED <<entry, archive, utilityVars, trackVars, summaryVars, crawlVars, run_ticker, inst_idx,
                   filings_to_process, visited>>

\* The filings of the institution are done: time.sleep(1), next institution.
RunInstitutionDone ==
    /\ pc = "run_filing"
    /\ filing_idx > Len(filings_to_process)
    /\ Sleep
    /\ inst_idx' = inst_idx + 1
    /\ pc' = "run_institution"
    /\ UNCHANGED <<entry, archive, utilityVars, trackVars, summaryVars, crawlVars, cascadeVars, run_ticker, filings_to_process,
                   filing_idx, all_historical_holdings, visited, run_log>>

\* Where control goes when the run of one ticker returns.
RunReturnPc == IF entry \in TrackEntries THEN "track_save" ELSE "done"

\* return all_historical_holdings
RunReturn ==
    /\ pc = "run_institution"
    /\ inst_idx > Len(SelectedInstitutions)
    /\ pc' = RunReturnPc
    /\ UNCHANGED <<entry, archive, utilityVars, trackVars, summaryVars, crawlVars, cascadeVars, runVars, netVars>>

RunNext ==
    \/ RunCrawlInstitution
    \/ RunSelectFilings
    \/ RunParseFiling
    \/ RunCollect
    \/ RunInstitutionDone
    \/ RunReturn
    \/ CrawlNext
    \/ CascadeNext

RunTickers == {NVDA}

InitRun ==
    /\ entry = "run"
    /\ archive \in {"sparse", "bulk"}
    /\ pc = "run_institution"
    /\ InitCrawlIdle
    /\ InitCascadeIdle
    /\ run_ticker \in RunTickers
    /\ inst_idx = 1
    /\ filings_to_process = <<>>
    /\ filing_idx = 1
    /\ all_historical_holdings = <<>>
    /\ visited = <<>>
    /\ run_log = <<>>
    /\ InitSummaryIdle
    /\ InitNet
    /\ InitUtilityIdle
    /\ InitTrackIdle

SpecRun == InitRun /\ [][RunNext]_vars

----------------------------------------------------------------------------
(* Arithmetic of the aggregators *)

\* res = 0.; for x in xs: res += x
RECURSIVE SumFrom(_, _)
SumFrom(res, xs) == IF xs = <<>> THEN res ELSE SumFrom(DecAdd(res, Head(xs)), Tail(xs))

\* Series.sum() of a float64 column: the pairwise summation of numpy's
\* add.reduce. Fewer than 8 numbers are added one after the other; up to 128
\* numbers go to 8 accumulators, which are added in pairs, and the numbers
\* past the last full block of 8 are added one after the other; a longer
\* column is split in two.
\* ((r[1] + r[2]) + (r[3] + r[4])) + ((r[5] + r[6]) + (r[7] + r[8])), for a
\* number of accumulators that is a power of two
RECURSIVE AddInPairs(_)
AddInPairs(r) ==
    IF Len(r) = 1 THEN r[1]
    ELSE DecAdd(AddInPairs(SubSeq(r, 1, Len(r) \div 2)),
                AddInPairs(SubSeq(r, (Len(r) \div 2) + 1, Len(r))))

\* The accumulators of the first `full` numbers of xs: accumulator j starts
\* as number j and adds the numbers j + 8, j + 16, ... one after the other.
Accumulators(xs, full) ==
    [j \in 1..8 |-> SumFrom(xs[j], [b \in 1..((full \div 8) - 1) |-> xs[8 * b + j]])]

RECURSIVE DecSum(_)
DecSum(xs) ==
    IF Len(xs) <= 128
    THEN IF Len(xs) < 8
         THEN SumFrom(Zero, xs)
         ELSE SumFrom(AddInPairs(Accumulators(xs, Len(xs) - (Len(xs) % 8))),
                      SubSeq(xs, Len(xs) - (Len(xs) % 8) + 1, Len(xs)))
    ELSE AddInPairs(<<DecSum(SubSeq(xs, 1, (Len(xs) \div 2) - ((Len(xs) \div 2) % 8))),
                      DecSum(SubSeq(xs, (Len(xs) \div 2) - ((Len(xs) \div 2) % 8) + 1,
                                    Len(xs)))>>)

\* x / y * 100 for y > 0
Percentage(x, y) == FloatTimes(FloatDiv(x, y), 100)

\* x / n for a count n > 0
Average(x, n) == FloatDiv(x, FloatOfInt(n))

----------------------------------------------------------------------------
(* The tables handed to the aggregators *)

MaxRows == 4        \* rows of the table handed to an aggregator

\* A row of the holdings table (or of the filing timeline): the columns the
\* aggregators read. _create_historical_summary reads institution_name,
\* filing_date, shares and market_value; _create_yearly_summary reads
\* institution_name, filing_year and filing_quarter.
RowOf(name, filing_date, shares, market_value) ==
    [institution_name |-> name,
     filing_date      |-> filing_date,
     filing_year      |-> FilingYear(filing_date),
     filing_quarter   |-> FilingQuarter(filing_date),
     shares           |-> shares,
     market_value     |-> market_value]

Row(name, filing_date, shares, market_value) ==
    RowOf(name, filing_date, FloatOfInt(shares), FloatOfInt(market_value))

\* A row whose share count was reported with a fractional part.
RowFractional(name, filing_date, shares, market_value) ==
    RowOf(name, filing_date, PyFloat(shares).val, FloatOfInt(market_value))

RowBerkshire2019 == Row("Berkshire Hathaway Inc", <<2019, 11, 14>>, 100, 4000)
RowBerkshireEarly2020 == Row("Berkshire Hathaway Inc", <<2020, 2, 14>>, 200, 9000)
RowBerkshireLate2020 == Row("Berkshire Hathaway Inc", <<2020, 11, 13>>, 300, 15000)
RowVanguard2020 == Row("Vanguard Group Inc", <<2020, 11, 13>>, 50, 2500)
RowBlackRock2020 == Row("BlackRock Inc", <<2020, 2, 14>>, 25, 1000)
RowStateStreet2020 == Row("State Street Corp", <<2020, 11, 13>>, 10, 500)
RowVanguardNone2020 == Row("Vanguard Group Inc", <<2020, 2, 14>>, 0, 0)
RowBerkshireOptions2020 == Row("Berkshire Hathaway Inc", <<2020, 11, 13>>, 40, 2000)

SampleRows ==
    {RowBerkshire2019, RowBerkshireEarly2020, RowBerkshireLate2020, RowVanguard2020,
     RowBlackRock2020, RowStateStreet2020, RowVanguardNone2020,
     RowBerkshireOptions2020}

RowBerkshireTenth2020 ==
    RowFractional("Berkshire Hathaway Inc", <<2020, 11, 13>>, <<"0", ".", "1">>, 40)
RowBlackRockTenth2020 ==
    RowFractional("BlackRock Inc", <<2020, 11, 13>>, <<"0", ".", "1">>, 40)
RowBlackRockFifth2020 ==
    RowFractional("BlackRock Inc", <<2020, 11, 13>>, <<"0", ".", "2">>, 80)
RowVanguardTenth2020 ==
    RowFractional("Vanguard Group Inc", <<2020, 11, 13>>, <<"0", ".", "1">>, 40)
RowVanguardThreeTenths2020 ==
    RowFractional("Vanguard Group Inc", <<2020, 11, 13>>, <<"0", ".", "3">>, 120)

FractionalRows ==
    {RowBerkshireTenth2020, RowBlackRockTenth2020, RowBlackRockFifth2020,
     RowVanguardTenth2020, RowVanguardThreeTenths2020}

\* A share count reported with 310 digits, beyond the largest float:
\* float() reads it as inf.
RowBerkshireOverflow2020 ==
    RowOf("Berkshire Hathaway Inc", <<2020, 11, 13>>, Infinity(FALSE), FloatOfInt(40))
OverflowRows == {RowBerkshireOverflow2020, RowVanguard2020}

\* The tables of whole share counts, the tables of fractional ones and the
\* tables with a share count that overflowed.
SummaryTables ==
    SeqsUpTo(SampleRows, MaxRows) \cup SeqsUpTo(FractionalRows, MaxRows)
        \cup SeqsUpTo(OverflowRows, MaxRows)

----------------------------------------------------------------------------
(* df.sort_values('filing_date', ascending=False) *)

\* The default sort of sort_values is not stable: rows of equal filing_date
\* may come out in any order. The orders of the rows at the positions in S,
\* newest first.
RECURSIVE SortedOrders(_, _)
SortedOrders(df, S) ==
    IF S = {} THEN {<<>>}
    ELSE LET newest == {i \in S : \A j \in S :
                                     ~DateLess(df[i].filing_date, df[j].filing_date)}
         IN UNION {{<<df[i]>> \o rest : rest \in SortedOrders(df, S \ {i})} : i \in newest}

SortValues(df) == SortedOrders(df, 1..Len(df))

----------------------------------------------------------------------------
(* _create_historical_summary and _create_yearly_summary *)

\* The institution names of the roster as Python orders strings.
InstitutionNamesSorted ==
    <<"Ark Investment Management LLC", "Berkshire Hathaway Inc", "BlackRock Inc",
      "Capital Research Global Investors", "Dimensional Fund Advisors",
      "Fidelity Management & Research", "Goldman Sachs Group Inc", "Invesco Ltd",
      "Northern Trust Corp", "State Street Corp", "T. Rowe Price Associates Inc",
      "Vanguard Group Inc", "Wellington Management Co">>

\* pd.to_datetime(holdings_df['filing_date']).dt.year
RowYear(row) == FilingYear(row.filing_date)

YearsOldestFirst(S) ==
    LET RECURSIVE Go(_)
        Go(T) == IF T = {} THEN <<>>
                 ELSE LET y == CHOOSE z \in T : \A w \in T : z <= w
                      IN <<y>> \o Go(T \ {y})
    IN Go(S)

\* sorted(df[column].unique(), reverse=True)
YearsNewestFirst(S) ==
    LET RECURSIVE Go(_)
        Go(T) == IF T = {} THEN <<>>
                 ELSE LET y == CHOOSE z \in T : \A w \in T : w <= z
                      IN <<y>> \o Go(T \ {y})
    IN Go(S)

\* The names that occur in the rows, in group (sorted) order.
GroupKeys(rows) ==
    SelectSeq(InstitutionNamesSorted,
              LAMBDA n : \E i \in 1..Len(rows) : rows[i].institution_name = n)

GroupLast(rows) ==
    LET keys == GroupKeys(rows)
    IN [k \in 1..Len(keys) |->
            rows[CHOOSE i \in 1..Len(rows) :
                    /\ rows[i].institution_name = keys[k]
                    /\ \A j \in (i + 1)..Len(rows) : rows[j].institution_name # keys[k]]]

\* year_data.groupby('institution_name').first().reset_index(): for each
\* institution, in sorted order of the names, the first of its rows.
GroupFirst(rows) ==
    LET keys == GroupKeys(rows)
    IN [k \in 1..Len(keys) |->
            rows[CHOOSE i \in 1..Len(rows) :
                    /\ rows[i].institution_name = keys[k]
                    /\ \A j \in 1..(i - 1) : rows[j].institution_name # keys[k]]]

Shares(rows) == [i \in 1..Len(rows) |-> rows[i].shares]
MarketValues(rows) == [i \in 1..Len(rows) |-> rows[i].market_value]

IdxFirst(xs) == 1

\* latest['shares'].idxmax(): the first position holding the maximum
IdxMax(xs) ==
    CHOOSE i \in 1..Len(xs) :
        /\ \A j \in 1..Len(xs) : ~DecLess(xs[i], xs[j])
        /\ \A j \in 1..(i - 1) : DecLess(xs[j], xs[i])

\* The n largest of xs, largest first.
RECURSIVE Largest(_, _)
Largest(xs, n) ==
    IF n = 0 \/ xs = <<>> THEN <<>>
    ELSE LET i == IdxMax(xs)
         IN <<xs[i]>> \o Largest(SubSeq(xs, 1, i - 1) \o SubSeq(xs, i + 1, Len(xs)), n - 1)

TopHolders == 3

TopSharesOfAll(rows) == DecSum(Shares(rows))

\* latest.nlargest(3, 'shares')['shares'].sum()
TopShares(rows) == DecSum(Largest(Shares(rows), TopHolders))

\* The entry of a year, from its aggregates: total_shares, total_value and
\* largest are the sums and the idxmax of latest_per_institution.
SummaryEntry(latest_per_institution, year, ticker, total_shares, total_value, largest) ==
    [year                       |-> year,
     ticker                     |-> ticker,
     total_institutional_shares |-> total_shares,
     total_market_value         |-> total_value,
     num_major_institutions     |-> Len(latest_per_institution),
     avg_holding_size           |-> IF Len(latest_per_institution) > 0
                                    THEN Average(total_shares, Len(latest_per_institution))
                                    ELSE Zero,
     largest_holder             |-> latest_per_institution[largest].institution_name,
     largest_holding_shares     |-> latest_per_institution[largest].shares,
     concentration_top3         |-> IF DecLess(Zero, total_shares)
                                    THEN Percentage(TopShares(latest_per_institution),
                                                    total_shares)
                                    ELSE Zero]

\* total_shares = latest_per_institution['shares'].sum(), total_value =
\* latest_per_institution['market_value'].sum() and the idxmax of the shares
SummaryOfLatest(latest_per_institution, year, ticker) ==
    SummaryEntry(latest_per_institution, year, ticker,
                 DecSum(Shares(latest_per_institution)),
                 DecSum(MarketValues(latest_per_institution)),
                 IdxMax(Shares(latest_per_institution)))

\* One entry of the list _create_historical_summary returns:
\* year_data = df[df['year'] == year] and latest_per_institution =
\* year_data.groupby('institution_name').first().reset_index()
HistoricalSummaryOfYear(df, year, ticker) ==
    SummaryOfLatest(GroupFirst(SelectSeq(df, LAMBDA row : RowYear(row) = year)),
                    year, ticker)

\* _create_historical_summary(holdings_df, ticker)
CreateHistoricalSummary(df, ticker) ==
    IF df = <<>> THEN <<>>
    ELSE LET years == YearsNewestFirst({RowYear(df[i]) : i \in 1..Len(df)})
         IN [k \in 1..Len(years) |-> HistoricalSummaryOfYear(df, years[k], ticker)]

\* The number of rows of an institution.
ValueCount(rows, name) ==
    Cardinality({i \in 1..Len(rows) : rows[i].institution_name = name})

AnyInstitution(rows) == {rows[i].institution_name : i \in 1..Len(rows)}

\* year_data['institution_name'].value_counts().index[0]: an institution
\* with the most rows; the order value_counts gives to equal counts is not
\* specified.
MostActive(rows) ==
    {rows[i].institution_name : i \in {j \in 1..Len(rows) :
        \A k \in 1..Len(rows) :
            ValueCount(rows, rows[k].institution_name)
                <= ValueCount(rows, rows[j].institution_name)}}

\* One entry of the list _create_yearly_summary returns; most_active is the
\* head of value_counts.
YearlySummaryOfYear(df, year, ticker, most_active) ==
    LET year_data == SelectSeq(df, LAMBDA row : row.filing_year = year)
        institutions == {year_data[i].institution_name : i \in 1..Len(year_data)}
        quarters == {year_data[i].filing_quarter : i \in 1..Len(year_data)}
    IN [year                        |-> year,
        ticker                      |-> ticker,
        total_filings               |-> Len(year_data),
        active_institutions         |-> Cardinality(institutions),
        avg_filings_per_institution |-> IF Cardinality(institutions) > 0
                                        THEN FloatDiv(FloatOfInt(Len(year_data)),
                                                      FloatOfInt(Cardinality(institutions)))
                                        ELSE Zero,
        most_active_institution     |-> most_active,
        quarters_with_activity      |-> Cardinality(quarters)]

\* The lists _create_yearly_summary(timeline_df, ticker) may return.
CreateYearlySummary(df, ticker) ==
    LET years == YearsNewestFirst({df[i].filing_year : i \in 1..Len(df)})
        YearData(y) == SelectSeq(df, LAMBDA row : row.filing_year = y)
        heads == {h \in [1..Len(years) -> {df[i].institution_name : i \in 1..Len(df)}] :
                     \A k \in 1..Len(years) : h[k] \in MostActive(YearData(years[k]))}
    IN {[k \in 1..Len(years) |-> YearlySummaryOfYear(df, years[k], ticker, h[k])] :
            h \in heads}

\* if historical_holdings: ... (track_major_institutions) and
\* if timeline_data: ... (create_comprehensive_institutional_dataset): an
\* empty table is not summarised.
SummaryEmpty ==
    /\ pc = "summary_sort"
    /\ holdings_df = <<>>
    /\ pc' = "done"
    /\ UNCHANGED <<entry, archive, utilityVars, trackVars, summaryVars, crawlVars, cascadeVars, runVars, netVars>>

\* holdings_df = holdings_df.sort_values('filing_date', ascending=False)
SummarySort ==
    /\ pc = "summary_sort"
    /\ holdings_df # <<>>
    /\ holdings_df' \in SortValues(holdings_df)
    /\ pc' = "summary_create"
    /\ UNCHANGED <<entry, archive, utilityVars, trackVars, summary_data, crawlVars, cascadeVars, runVars, netVars>>

\* summary_data = self._create_historical_summary(holdings_df, ticker)
SummaryCreateHistorical ==
    /\ pc = "summary_create"
    /\ tracker = "InstitutionalTracker"
    /\ summary_data' = CreateHistoricalSummary(holdings_df, run_ticker)
    /\ pc' = "done"
    /\ UNCHANGED <<entry, archive, utilityVars, trackVars, holdings_df, crawlVars, cascadeVars, runVars, netVars>>

\* yearly_summary = self._create_yearly_summary(timeline_df, ticker)
SummaryCreateYearly ==
    /\ pc = "summary_create"
    /\ tracker = "SimplifiedInstitutionalTracker"
    /\ summary_data' \in CreateYearlySummary(holdings_df, run_ticker)
    /\ pc' = "done"
    /\ UNCHANGED <<entry, archive, utilityVars, trackVars, holdings_df, crawlVars, cascadeVars, runVars, netVars>>

SummaryNext ==
    \/ SummaryEmpty
    \/ SummarySort
    \/ SummaryCreateHistorical
    \/ SummaryCreateYearly

SummaryTrackers == {"InstitutionalTracker", "SimplifiedInstitutionalTracker"}

InitSummary ==
    /\ entry = "summary"
    /\ archive = "sparse"
    /\ pc = "summary_sort"
    /\ tracker \in SummaryTrackers
    /\ now_year \in ClockYears
    /\ cik \in CrawlCiks
    /\ start_year = 0
    /\ end_year = 0
    /\ years_back = 0
    /\ files = <<>>
    /\ file_idx = 1
    /\ all_filings = <<>>
    /\ crawl_result = <<>>
    /\ index_log = [outcome |-> "none", recent |-> NoData]
    /\ shard_log = <<>>
    /\ InitCascadeIdle
    /\ run_ticker \in RunTickers
    /\ inst_idx = 1
    /\ filings_to_process = <<>>
    /\ filing_idx = 1
    /\ all_historical_holdings = <<>>
    /\ visited = <<>>
    /\ run_log = <<>>
    /\ holdings_df \in SummaryTables
    /\ summary_data = <<>>
    /\ InitNet
    /\ InitUtilityIdle
    /\ InitTrackIdle

SpecSummary == InitSummary /\ [][SummaryNext]_vars

----------------------------------------------------------------------------
(* Properties of the crawler *)

CrawlReturned == pc \notin {"crawl_index", "crawl_shard", "crawl_sleep"}
IndexOk == index_log.outcome = "ok"
ShardFailed(k) == shard_log[k].outcome # "ok"

\* The entries the archive served with a 200 response: those of the recent
\* list and of every shard whose request succeeded.
ServedSources ==
    {index_log.recent} \cup
    {shard_log[k].data : k \in {j \in 1..Len(shard_log) : ~ShardFailed(j)}}

\* A served entry is a holdings report filed inside the requested years.
Qualifies(d, i) ==
    /\ d.form[i] = "13F-HR"
    /\ start_year <= d.filingDate[i][1]
    /\ d.filingDate[i][1] <= end_year

QualifyingIn(d) == {d.accessionNumber[i] : i \in {j \in 1..Len(d.form) : Qualifies(d, j)}}
QualifyingAccessions == UNION {QualifyingIn(d) : d \in ServedSources}
ReturnedAccessions == {crawl_result[i].accession_number : i \in 1..Len(crawl_result)}

\* A served holdings report of list d that the running crawler's year filter
\* accepts (the simplified tracker has a lower cutoff only).
Accepted(d, i) ==
    /\ d.form[i] = "13F-HR"
    /\ IF tracker = "InstitutionalTracker"
       THEN start_year <= d.filingDate[i][1] /\ d.filingDate[i][1] <= end_year
       ELSE d.filingDate[i][1] >= now_year - years_back

AcceptedIn(d) == {d.accessionNumber[i] : i \in {j \in 1..Len(d.form) : Accepted(d, j)}}

\* C4: a failed shard (non-200, or an exception while handling it) does not
\* abort the crawl: every shard the index references is still requested, and
\* the returned list holds every in-range holdings report of the recent list
\* and of every shard that was fetched successfully.
C4_CrawlerResilience ==
    (CrawlReturned /\ IndexOk) =>
        /\ Len(shard_log) = Cardinality({k \in 1..Len(files) : HasName(files[k])})
        /\ \A k \in 1..Len(shard_log) : shard_log[k].name = k
        /\ \A d \in ServedSources : AcceptedIn(d) \subseteq ReturnedAccessions

\* C5: when the index fetch succeeds, get_historical_13f_filings returns
\* exactly the served entries whose form is 13F-HR and whose filing year lies
\* in [start_year, end_year]: none omitted, none added, none repeated, each
\* with the date and year the archive listed.
C5_FilterCorrectness ==
    (tracker = "InstitutionalTracker" /\ CrawlReturned /\ IndexOk) =>
        /\ ReturnedAccessions = QualifyingAccessions
        /\ Len(crawl_result) = Cardinality(QualifyingAccessions)
        /\ \A i \in 1..Len(crawl_result) :
              /\ crawl_result[i].form = "13F-HR"
              /\ start_year <= crawl_result[i].filing_year
              /\ crawl_result[i].filing_year <= end_year
              /\ crawl_result[i].filing_year = crawl_result[i].filing_date[1]

\* C6: the returned sequence is ordered newest first: no entry is older than
\* the entry that follows it.
C6_NewestFirst ==
    CrawlReturned =>
        \A i \in 1..(Len(crawl_result) - 1) :
            LET a == crawl_result[i].filing_date
                b == crawl_result[i + 1].filing_date
            IN \/ a[1] > b[1]
               \/ a[1] = b[1] /\ a[2] > b[2]
               \/ a[1] = b[1] /\ a[2] = b[2] /\ a[3] >= b[3]

\* A crawl to which the archive delivered an older entry before a newer one
\* and which returned both.
C6_Witness ==
    /\ CrawlReturned
    /\ Len(all_filings) >= 2
    /\ all_filings[1].filing_date[1] < all_filings[2].filing_date[1]
    /\ Len(crawl_result) = Len(all_filings)

\* C7: between any two consecutive shard requests of one crawl the rate-limit
\* delay is applied, however the earlier shard request ended.
C7_DelayBetweenShards ==
    \A k \in 2..Len(shard_log) : shard_log[k].delayed

----------------------------------------------------------------------------
(* Properties of the parser cascade *)

CascadeEnded == parse_outcome # "none"
StrategyOrder == <<"infotable.xml", "primary_doc.xml", "accession.txt">>
Yielded(i) == cascade_log[i].holdings # <<>>

\* C1: documents are requested in the order structured table, primary
\* document, full text only, and a strategy that yields at least one holding
\* ends the cascade: its holdings are returned and no later document is
\* requested.
C1_ShortCircuit ==
    /\ Len(cascade_log) <= 3
    /\ \A i \in 1..Len(cascade_log) : cascade_log[i].doc = StrategyOrder[i]
    /\ \A i \in 1..Len(cascade_log) :
          Yielded(i) =>
              /\ i = Len(cascade_log)
              /\ parse_outcome = "returned"
              /\ parse_result = cascade_log[i].holdings

\* The structured table yielded a holding and the cascade returned after
\* that single request.
C1_Witness ==
    /\ parse_outcome = "returned"
    /\ Len(cascade_log) = 1
    /\ cascade_log[1].outcome = "ok"
    /\ Len(parse_result) >= 1

\* C2: a document-level failure of one strategy (non-200, raised exception,
\* unparseable markup) is swallowed by that strategy alone and the next
\* strategy is still attempted; the result is empty only if all three
\* strategies were attempted and each yielded nothing.
C2_ErrorIsolation ==
    CascadeEnded =>
        /\ \A i \in 1..Len(cascade_log) :
              (~Yielded(i) /\ i < 3) => Len(cascade_log) > i
        /\ (parse_outcome = "returned" /\ parse_result = <<>>) =>
              Len(cascade_log) = 3

\* C3: parse_13f_holdings never propagates an error: whatever the three
\* requests and parses do, it ends by returning a sequence of holdings.
C3_CascadeTotal ==
    /\ parse_outcome \in {"none", "returned"}
    /\ (parse_outcome = "none") = (pc = "parse_fetch")
    /\ (\E i \in 1..Len(cascade_log) : cascade_log[i].outcome = "raise") =>
          (parse_outcome = "returned" /\ parse_result = <<>>)

\* A request raised and the cascade returned the empty sequence.
C3_Witness ==
    /\ parse_outcome = "returned"
    /\ parse_result = <<>>
    /\ Len(cascade_log) = 2
    /\ cascade_log[1].outcome = "ok"
    /\ cascade_log[2].outcome = "raise"

----------------------------------------------------------------------------
(* Properties of the historical run *)

\* C8: every request to the archive host is separated from the previous
\* request by a rate-limit delay.
C8_GlobalThrottle == ~unthrottled

FilingLoopOver == pc = "run_filing" /\ filing_idx > Len(filings_to_process)
HoldingsOfFiling(a) ==
    {i \in 1..Len(all_historical_holdings) : all_historical_holdings[i].accession_number = a}
HoldingsOfInstitution(c) ==
    {i \in 1..Len(all_historical_holdings) : all_historical_holdings[i].institution_cik = c}

\* C9: a filing whose extraction yields nothing or fails does not stop the
\* batch and a failed institution does not stop the run: after every cascade
\* call the loop stands at the next selected filing, every selected
\* institution is crawled, and a filing that yielded nothing or an
\* institution whose crawl failed has no record in the result.
C9_BatchContinuation ==
    /\ pc = "run_filing" =>
          /\ Len(run_log) = filing_idx - 1
          /\ filing_idx <= Len(filings_to_process) + 1
          /\ \A j \in 1..Len(run_log) :
                /\ run_log[j].accession_number = filings_to_process[j].accession_number
                /\ Cardinality(HoldingsOfFiling(run_log[j].accession_number))
                      = run_log[j].yielded
                /\ run_log[j].raised => run_log[j].yielded = 0
          /\ index_log.outcome \in {"non200", "raise"} =>
                /\ filings_to_process = <<>>
                /\ HoldingsOfInstitution(cik) = {}
    /\ pc = "run_institution" => Len(visited) = inst_idx - 1
    /\ pc = "done" => Len(visited) = 3

\* The run ended; the crawl of the first institution had failed; in the last
\* institution a filing whose request raised was followed by a filing that
\* gave a record.
C9_Witness ==
    /\ pc = "done"
    /\ HoldingsOfInstitution("0001067983") = {}
    /\ Len(run_log) = 2
    /\ run_log[1].raised /\ run_log[1].yielded = 0
    /\ run_log[2].yielded = 1
    /\ Cardinality(HoldingsOfInstitution("0000950123")) = 1

RosterCiks ==
    {"0001067983", "0001364742", "0000950123", "0001418814", "0000315066",
     "0001159556", "0000820932", "0001011006", "0000929351", "0000886982",
     "0001019687", "0000902165", "0001166559"}

CallsOn(a) == {j \in 1..Len(run_log) : run_log[j].accession_number = a}

\* C10 as claimed: the cascade is invoked once on every filing the crawler
\* returned, for every institution of the roster.
C10_PipelineCoverage ==
    /\ FilingLoopOver =>
          \A i \in 1..Len(crawl_result) :
              Cardinality(CallsOn(crawl_result[i].accession_number)) = 1
    /\ pc = "done" => Range(visited) = RosterCiks

\* The filings the run takes from a crawler result: the first 20 of those
\* filed in 2020 or later, then every fourth (the 1st, 5th, 9th, ...) of
\* those filed before 2020, 50 at most.
ExpectedRecent ==
    LET r == SelectSeq(crawl_result, LAMBDA f : f.filing_date[1] >= 2020)
    IN [i \in 1..(IF Len(r) > 20 THEN 20 ELSE Len(r)) |-> r[i]]
ExpectedOlder ==
    LET o == SelectSeq(crawl_result, LAMBDA f : f.filing_date[1] < 2020)
    IN [i \in 1..((Len(o) + 3) \div 4) |-> o[4 * i - 3]]
ExpectedSelection ==
    LET all == ExpectedRecent \o ExpectedOlder
    IN [i \in 1..(IF Len(all) > 50 THEN 50 ELSE Len(all)) |-> all[i].accession_number]

\* C10 as amended: only the first three institutions of the roster are
\* crawled, and for each of them the cascade is invoked exactly once, in
\* order, on each selected filing of the crawler result and on no other.
C10_SelectedCoverage ==
    /\ FilingLoopOver =>
          [j \in 1..Len(run_log) |-> run_log[j].accession_number] = ExpectedSelection
    /\ pc = "done" => visited = <<"0001067983", "0001364742", "0000950123">>

\* The crawler returned more than 20 filings of 2021 and more than 120 of
\* 2019; the cascade was invoked on 50 of them, the 20 newest and 30 older
\* ones, and the loop is over.
C10_Witness ==
    /\ FilingLoopOver
    /\ Len(crawl_result) > 140
    /\ crawl_result[21].filing_year = 2021
    /\ Len(run_log) = 50
    /\ run_log[20].accession_number = crawl_result[20].accession_number
    /\ run_log[21].accession_number # crawl_result[21].accession_number
    /\ CallsOn(crawl_result[21].accession_number) = {}

----------------------------------------------------------------------------
(* Properties of the document parsers *)

\* The cascade holds a 200 response whose document it has parsed: holdings
\* is what the parser of that strategy returned for it.
Parsed == response.status_code = 200
ParsedTable == Parsed /\ response.strategy <= 2 /\ response.text.xml.kind = "xml"
ParsedText == Parsed /\ response.strategy = 3

\* The tags of the parsed table that give a holding, in document order.
EmittingTags ==
    SelectSeq(response.text.xml.tags,
              LAMBDA tag : /\ tag.name.present
                           /\ tag.cusip.present
                           /\ IsTargetHolding(CusipToTicker(tag.cusip.text),
                                              tag.name.text, tickers_arg))

\* The number a reported string stands for once everything but digits, the
\* point and the sign is dropped; readable is FALSE where nothing is left
\* that reads as a number.
Reported(field) ==
    PyFloat(StripNonNumeric(IF field.present THEN field.text ELSE <<"0">>))

\* The numeric tokens of a line of text.
RawTokens(line) == FindNumbers(line)
RawValue(token) == PyFloat(DropCommas(token)).val

\* C11: the market value of a holding depends on the strategy that produced
\* it: a holding of the structured table (or primary document) has the
\* reported value times 1000, a holding of the full-text fallback has the
\* raw numeric token (the last one of its line), unscaled.
C11_MarketValueScaling ==
    /\ ParsedTable =>
          /\ Len(holdings) = Len(EmittingTags)
          /\ \A i \in 1..Len(holdings) :
                LET tag == EmittingTags[i]
                IN (Reported(tag.shares).ok /\ Reported(tag.value).ok) =>
                      holdings[i].market_value = Times1000(Reported(tag.value).val)
    /\ ParsedText =>
          \A i \in 1..Len(holdings) :
             LET tokens == RawTokens(holdings[i].raw_line)
             IN Len(tokens) > 1 =>
                   holdings[i].market_value = RawValue(tokens[Len(tokens)])

\* The coercion rule as stated: footnote markers (parenthesized digits),
\* thousands separators and currency symbols are stripped and the remainder
\* is read as a number; a remainder that does not read as a number gives 0.
RECURSIVE ClosingParen(_, _)
ClosingParen(s, i) ==
    IF i > Len(s) THEN 0
    ELSE IF s[i] = ")" THEN i
    ELSE IF IsDigit(s[i]) THEN ClosingParen(s, i + 1)
    ELSE 0
RECURSIVE StripFootnotes(_)
StripFootnotes(s) ==
    IF s = <<>> THEN <<>>
    ELSE IF s[1] = "(" /\ ClosingParen(s, 2) > 2
         THEN StripFootnotes(SubSeq(s, ClosingParen(s, 2) + 1, Len(s)))
         ELSE <<s[1]>> \o StripFootnotes(Tail(s))
StatedCoercion(s) ==
    LET rest == SelectSeq(StripFootnotes(s), LAMBDA c : c \notin {",", "$"})
    IN IF PyFloat(rest).ok THEN PyFloat(rest).val ELSE Zero

\* C12: the share count and the market value of every holding of a parsed
\* table are the stated coercion of the reported strings (the value times
\* 1000): "1,234.5" reads as 1234.5, "$1,000" as 1000, "" and "(1)" as 0.
C12_NumericCoercion ==
    ParsedTable =>
       /\ Len(holdings) = Len(EmittingTags)
       /\ \A i \in 1..Len(holdings) :
             LET tag == EmittingTags[i]
                 shares == IF tag.shares.present THEN tag.shares.text ELSE <<"0">>
                 value  == IF tag.value.present THEN tag.value.text ELSE <<"0">>
             IN /\ holdings[i].shares = StatedCoercion(shares)
                /\ holdings[i].market_value = Times1000(StatedCoercion(value))

\* C18: no holding returned by a parser has a negative share count.
C18_SharesNonNegative ==
    Parsed => \A i \in 1..Len(holdings) : ~FloatIsNegative(holdings[i].shares)

\* The target tickers a security name contains, compared case-insensitively.
NamedTargets(security_name, targets) ==
    {targets[k] : k \in {j \in 1..Len(targets) :
                            Contains(Lower(security_name), Lower(targets[j]))}}

\* C19: the ticker of a holding of a parsed table is the roster ticker of its
\* CUSIP when the CUSIP is in the roster, otherwise a target ticker its
\* security name contains, otherwise absent; when target tickers are given,
\* the ticker of every returned holding is one of them.
C19_TickerResolution ==
    ParsedTable =>
       /\ Len(holdings) = Len(EmittingTags)
       /\ \A i \in 1..Len(holdings) :
             LET tag == EmittingTags[i]
                 byCusip == CusipToTicker(tag.cusip.text)
                 byName  == NamedTargets(tag.name.text, tickers_arg)
             IN /\ byCusip # <<>> => holdings[i].ticker = byCusip
                /\ (byCusip = <<>> /\ byName # {}) => holdings[i].ticker \in byName
                /\ (byCusip = <<>> /\ byName = {}) => holdings[i].ticker = <<>>
                /\ tickers_arg # <<>> => holdings[i].ticker \in Range(tickers_arg)

\* The ticker stands in the line as a whole word, whatever its case.
WholeWord(line, ticker) ==
    \E i \in 1..Len(line) :
        /\ OccursAt(Lower(ticker), Lower(line), i)
        /\ (i = 1 \/ ~IsWordChar(line[i - 1]))
        /\ (i + Len(ticker) > Len(line) \/ ~IsWordChar(line[i + Len(ticker)]))

\* C20: a line of the filing text gives a holding for a ticker only if the
\* ticker occurs in the line as a whole word, compared case-insensitively.
C20_WholeWordMatch ==
    ParsedText =>
       \A i \in 1..Len(holdings) :
          WholeWord(holdings[i].raw_line, holdings[i].ticker)

----------------------------------------------------------------------------
(* Properties of the filing index entries *)

\* The entries the crawl has produced so far.
ProducedEntries ==
    {all_filings[i] : i \in 1..Len(all_filings)}
        \cup {crawl_result[i] : i \in 1..Len(crawl_result)}

QuarterNames == <<"Q1", "Q2", "Q3", "Q4">>

\* C16: every filing index entry produced by the crawlers has filing_year
\* equal to the year component of its filing_date, and where a quarter is
\* derived it is the quarter ((month - 1) div 3) + 1, one of 1, 2, 3, 4.
C16_YearAndQuarter ==
    \A e \in ProducedEntries :
        /\ e.filing_year = e.filing_date[1]
        /\ tracker = "SimplifiedInstitutionalTracker" =>
              LET quarter == ((e.filing_date[2] - 1) \div 3) + 1
              IN /\ quarter \in 1..4
                 /\ e.filing_quarter = QuarterNames[quarter]

\* A crawl of the simplified tracker returned an entry filed in November
\* (fourth quarter) and an entry filed in February (first quarter).
C16_Witness ==
    /\ tracker = "SimplifiedInstitutionalTracker"
    /\ CrawlReturned
    /\ \E i, j \in 1..Len(crawl_result) :
          /\ crawl_result[i].filing_date[2] = 11
          /\ crawl_result[i].filing_quarter = "Q4"
          /\ crawl_result[i].filing_year = 2019
          /\ crawl_result[j].filing_date[2] = 2
          /\ crawl_result[j].filing_quarter = "Q1"
          /\ crawl_result[j].filing_year = 2021

----------------------------------------------------------------------------
(* Properties of the accumulated holdings *)

\* The floats: a sign, a significand and an exponent.
Number == [neg : BOOLEAN, m : Seq(0..(LimbBase - 1)), e : Int]

\* C17: every holding appended to the accumulator of a historical run carries
\* the identifier of the institution being processed and the accession
\* number, filing date and filing year of the one filing index entry whose
\* document the cascade was called on, none of them null, and its shares and
\* market_value are numbers; holdings already accumulated are left as they
\* are.
C17_HoldingProvenance ==
    [][LET n == Len(all_historical_holdings)
           inst == SelectedInstitutions[inst_idx]
           filing == filings_to_process[filing_idx]
       IN /\ Len(all_historical_holdings') >= n
          /\ SubSeq(all_historical_holdings', 1, n) = all_historical_holdings
          /\ \A i \in (n + 1)..Len(all_historical_holdings') :
                LET h == all_historical_holdings'[i]
                IN /\ h.institution_cik = inst[1]
                   /\ h.institution_cik \in RosterCiks
                   /\ h.accession_number = filing.accession_number
                   /\ h.accession_number = accession_number
                   /\ h.accession_number # <<>>
                   /\ h.accession_number[1] = h.institution_cik
                   /\ h.filing_date = filing.filing_date
                   /\ h.filing_year = filing.filing_year
                   /\ h.filing_year = h.filing_date[1]
                   /\ h.shares \in Number
                   /\ h.market_value \in Number]_vars

\* The run has accumulated holdings of two filings of one institution, one
\* filed in 2021 and one in 2019.
C17_Witness ==
    \E i, j \in 1..Len(all_historical_holdings) :
        /\ all_historical_holdings[i].filing_year = 2021
        /\ all_historical_holdings[j].filing_year = 2019
        /\ all_historical_holdings[i].institution_cik
              = all_historical_holdings[j].institution_cik
        /\ all_historical_holdings[i].accession_number
              # all_historical_holdings[j].accession_number

----------------------------------------------------------------------------
(* Properties of the aggregators *)

SummaryDone == entry = "summary" /\ pc = "done"
Historical == tracker = "InstitutionalTracker"

\* The rows of the table, the institutions that have a row in year y, and
\* for each of them its rows of year y that no other of its rows of that year
\* is newer than.
TableRows == {holdings_df[i] : i \in 1..Len(holdings_df)}
InstitutionsIn(y) == {r.institution_name : r \in {q \in TableRows : RowYear(q) = y}}
LatestRows(name, y) ==
    LET mine == {r \in TableRows : r.institution_name = name /\ RowYear(r) = y}
    IN {r \in mine : \A q \in mine : ~DateLess(r.filing_date, q.filing_date)}

\* The ways of taking, for every institution of year y, one row of its most
\* recent filing date of that year.
Contributions(y) ==
    {c \in [InstitutionsIn(y) -> TableRows] :
        \A name \in InstitutionsIn(y) : c[name] \in LatestRows(name, y)}

\* The orders in which the members of S can be listed.
Orders(S) ==
    {p \in [1..Cardinality(S) -> S] :
        \A i, j \in 1..Cardinality(S) : p[i] = p[j] => i = j}

\* The sums of the shares (of the market values) that the institutions of S
\* contribute: float addition rounds, so the sum of fractional numbers may
\* depend on the order in which they are added.
SharesOver(c, S) ==
    {SumFrom(Zero, [i \in 1..Cardinality(S) |-> c[p[i]].shares]) : p \in Orders(S)}
ValueOver(c, S) ==
    {SumFrom(Zero, [i \in 1..Cardinality(S) |-> c[p[i]].market_value]) : p \in Orders(S)}

\* C13: in the yearly summary built from the holdings table, each institution
\* counts once per year and contributes the shares and market value of its
\* most recent filing of that year (by filing date); its older filings of the
\* year contribute nothing.
C13_LatestFilingWins ==
    (SummaryDone /\ Historical /\ holdings_df # <<>>) =>
        \A k \in 1..Len(summary_data) :
            LET s == summary_data[k]
                insts == InstitutionsIn(s.year)
            IN \E c \in Contributions(s.year) :
                  /\ s.total_institutional_shares \in SharesOver(c, insts)
                  /\ s.total_market_value \in ValueOver(c, insts)
                  /\ s.num_major_institutions = Cardinality(insts)

\* One institution filed in 2019 (100 shares), early in 2020 (200 shares) and
\* late in 2020 (300 shares): the summary of 2020 counts 300 shares, the
\* summary of 2019 counts 100.
C13_Witness ==
    /\ SummaryDone /\ Historical
    /\ TableRows = {RowBerkshire2019, RowBerkshireEarly2020, RowBerkshireLate2020}
    /\ Len(summary_data) = 2
    /\ summary_data[1].year = 2020
    /\ summary_data[1].total_institutional_shares = FloatOfInt(300)
    /\ summary_data[1].num_major_institutions = 1
    /\ summary_data[2].year = 2019
    /\ summary_data[2].total_institutional_shares = FloatOfInt(100)

\* The years present in the table the aggregator read.
YearsPresent ==
    IF Historical
    THEN {RowYear(r) : r \in TableRows}
    ELSE {r.filing_year : r \in TableRows}

\* C14: the aggregator returns exactly one summary per distinct filing year
\* present in its input and none for an absent year, ordered by year
\* strictly descending; for _create_historical_summary and for
\* _create_yearly_summary.
C14_OneSummaryPerYear ==
    SummaryDone =>
        /\ {summary_data[k].year : k \in 1..Len(summary_data)} = YearsPresent
        /\ Len(summary_data) = Cardinality(YearsPresent)
        /\ \A k \in 1..(Len(summary_data) - 1) :
              summary_data[k].year > summary_data[k + 1].year

\* A table with rows of 2019 and of 2020, several of them of 2020, was
\* summarised by _create_yearly_summary: 2020 first, then 2019.
C14_Witness ==
    /\ SummaryDone /\ ~Historical
    /\ Len(holdings_df) >= 3
    /\ Len(summary_data) = 2
    /\ summary_data[1].year = 2020
    /\ summary_data[1].total_filings >= 2
    /\ summary_data[2].year = 2019

\* The sums of the shares of min(3, number of institutions) institutions
\* none of which contributes less than an institution left out.
TopThreeShares(c, insts) ==
    LET n == IF Cardinality(insts) < 3 THEN Cardinality(insts) ELSE 3
        largest == {T \in SUBSET insts :
                       /\ Cardinality(T) = n
                       /\ \A a \in T, b \in insts \ T :
                             ~DecLess(c[a].shares, c[b].shares)}
    IN UNION {SharesOver(c, T) : T \in largest}

\* C15: for each year, concentration_top3 is 100 times the sum of the three
\* largest per-institution share counts divided by the total shares of that
\* year when the total is positive, and 0 when the total is 0.
C15_ConcentrationTop3 ==
    (SummaryDone /\ Historical /\ holdings_df # <<>>) =>
        \A k \in 1..Len(summary_data) :
            LET s == summary_data[k]
                insts == InstitutionsIn(s.year)
            IN \E c \in Contributions(s.year) :
                  LET total == s.total_institutional_shares
                  IN /\ total \in SharesOver(c, insts)
                     /\ DecLess(Zero, total) =>
                           \E top \in TopThreeShares(c, insts) :
                              s.concentration_top3 = Percentage(top, total)
                     /\ ~DecLess(Zero, total) => s.concentration_top3 = Zero

\* Four institutions hold 300, 50, 25 and 10 shares in 2020: the three
\* largest hold 375 of 385 shares, 375 / 385 * 100 per cent.
C15_Witness ==
    /\ SummaryDone /\ Historical
    /\ Len(summary_data) = 1
    /\ summary_data[1].num_major_institutions = 4
    /\ summary_data[1].total_institutional_shares = FloatOfInt(385)
    /\ summary_data[1].concentration_top3 = Percentage(FloatOfInt(375), FloatOfInt(385))

----------------------------------------------------------------------------
(* Properties of the document parsers: tokens, fallback and fields *)

\* C21: every holding of the full-text fallback comes from a line with at
\* least one numeric token; its share count is the first token of the line
\* and its market value is taken from the last token of the line (as it
\* stands or in thousands), also when the line has a single token, which is
\* then both the first and the last.
C21_FirstAndLastToken ==
    ParsedText =>
       \A i \in 1..Len(holdings) :
          LET tokens == RawTokens(holdings[i].raw_line)
              last   == RawValue(tokens[Len(tokens)])
          IN /\ Len(tokens) >= 1
             /\ holdings[i].shares = RawValue(tokens[1])
             /\ holdings[i].market_value \in {last, Times1000(last)}

\* The entries of a table document: the holding tags that carry a name and
\* a CUSIP, whatever security they report.
TableEntries(doc) ==
    IF doc.kind = "xml"
    THEN SelectSeq(doc.tags, LAMBDA tag : tag.name.present /\ tag.cusip.present)
    ELSE <<>>

\* C28: once the structured table or the primary document was retrieved and
\* parsed into at least one entry, the next request of the cascade is not
\* the request of the full-text document, whether or not an entry matches a
\* target ticker.
C28_FallbackLastResort ==
    [][(ParsedTable /\ TableEntries(response.text.xml) # <<>>
        /\ Len(cascade_log') > Len(cascade_log))
       => cascade_log'[Len(cascade_log')].doc # "accession.txt"]_vars

\* C29: in a parsed table the share count of every holding is read from the
\* share field alone and the market value from the value field alone: a
\* field that reads as a number gives that number (the value in thousands)
\* whatever the other field holds, and a field that does not gives 0.
C29_FieldIndependence ==
    ParsedTable =>
       /\ Len(holdings) = Len(EmittingTags)
       /\ \A i \in 1..Len(holdings) :
             LET tag == EmittingTags[i]
             IN /\ holdings[i].shares = Reported(tag.shares).val
                /\ holdings[i].market_value = Times1000(Reported(tag.value).val)

----------------------------------------------------------------------------
(* Properties of the aggregators: consistency of the summaries *)

\* The positions of the timeline entries of year y, and the number of them
\* an institution has.
EntriesOf(y) == {i \in 1..Len(holdings_df) : holdings_df[i].filing_year = y}
EntriesOfInstitution(y, name) ==
    {i \in EntriesOf(y) : holdings_df[i].institution_name = name}

RECURSIVE TotalFilings(_)
TotalFilings(n) == IF n = 0 THEN 0 ELSE summary_data[n].total_filings + TotalFilings(n - 1)

\* C25: every entry of the yearly summary of the filing timeline counts the
\* entries of its year (total_filings), the distinct institutions among them
\* (active_institutions, at least 1) and the distinct quarters among them
\* (quarters_with_activity, 1 to 4); avg_filings_per_institution is the
\* quotient of the two counts, most_active_institution is an institution
\* with the most entries of the year, and the total_filings of all years add
\* up to the number of timeline entries.
C25_YearlySummary ==
    (SummaryDone /\ ~Historical /\ holdings_df # <<>>) =>
        /\ \A k \in 1..Len(summary_data) :
              LET s == summary_data[k]
                  names == {holdings_df[i].institution_name : i \in EntriesOf(s.year)}
                  quarters == {holdings_df[i].filing_quarter : i \in EntriesOf(s.year)}
              IN /\ s.total_filings = Cardinality(EntriesOf(s.year))
                 /\ s.active_institutions = Cardinality(names)
                 /\ s.active_institutions >= 1
                 /\ s.avg_filings_per_institution
                       = FloatDiv(FloatOfInt(Cardinality(EntriesOf(s.year))),
                                  FloatOfInt(Cardinality(names)))
                 /\ s.most_active_institution \in names
                 /\ \A n \in names :
                       Cardinality(EntriesOfInstitution(s.year, n))
                          <= Cardinality(EntriesOfInstitution(s.year,
                                                              s.most_active_institution))
                 /\ s.quarters_with_activity = Cardinality(quarters)
                 /\ s.quarters_with_activity \in 1..4
        /\ TotalFilings(Len(summary_data)) = Len(holdings_df)

\* A timeline of four entries was summarised: three of 2020, two of them of
\* one institution and in two quarters, and one of 2019.
C25_Witness ==
    /\ SummaryDone /\ ~Historical
    /\ Len(holdings_df) = 4
    /\ Len(summary_data) = 2
    /\ summary_data[1].total_filings = 3
    /\ summary_data[1].active_institutions = 2
    /\ summary_data[1].avg_filings_per_institution = FloatDiv(FloatOfInt(3), FloatOfInt(2))
    /\ summary_data[1].most_active_institution = "Berkshire Hathaway Inc"
    /\ summary_data[1].quarters_with_activity = 2
    /\ summary_data[2].total_filings = 1

\* What the claim states of entry s of the summary, for the contributions c
\* of the institutions insts of its year.
ConsistentSummary(s, c, insts) ==
    /\ s.num_major_institutions >= 1
    /\ s.num_major_institutions = Cardinality(insts)
    /\ s.total_institutional_shares \in SharesOver(c, insts)
    /\ s.largest_holder \in insts
    /\ s.largest_holding_shares = c[s.largest_holder].shares
    /\ \A n \in insts : ~DecLess(s.largest_holding_shares, c[n].shares)
    /\ ~DecLess(s.largest_holding_shares, s.avg_holding_size)
    /\ ~DecLess(s.total_institutional_shares, s.largest_holding_shares)
    /\ ~DecLess(s.concentration_top3, Zero)
    /\ ~DecLess(FloatOfInt(100), s.concentration_top3)
    /\ (Cardinality(insts) <= 3 /\ DecLess(Zero, s.total_institutional_shares))
          => s.concentration_top3 = FloatOfInt(100)

\* C30 as stated: every entry of the yearly holdings summary, of a table
\* whose share counts are not negative, is consistent: at least one
\* institution contributes; total_institutional_shares is the sum of the
\* contributions; largest_holding_shares is the largest contribution and the
\* contribution of largest_holder; avg_holding_size <=
\* largest_holding_shares <= total_institutional_shares; concentration_top3
\* lies between 0 and 100 and is 100 when at most three institutions
\* contribute a positive total.
C30_SummaryConsistency ==
    (SummaryDone /\ Historical /\ holdings_df # <<>>
     /\ \A r \in TableRows : ~FloatIsNegative(r.shares)) =>
        \A k \in 1..Len(summary_data) :
            \E c \in Contributions(summary_data[k].year) :
                ConsistentSummary(summary_data[k], c, InstitutionsIn(summary_data[k].year))

\* x is a whole number (float.is_integer())
FloatIsWhole(x) == ~FloatIsInf(x) /\ ~FloatIsNaN(x) /\ x.e >= 0

\* C30, amended: the consistency holds of every entry of the yearly holdings
\* summary of a table whose share counts are non-negative whole numbers
\* (their sums are exact); with fractional share counts the sums are
\* rounded and the order relations can fail in the last binary place.
C30_WholeShareConsistency ==
    (SummaryDone /\ Historical /\ holdings_df # <<>>
     /\ \A r \in TableRows : ~FloatIsNegative(r.shares) /\ FloatIsWhole(r.shares)) =>
        \A k \in 1..Len(summary_data) :
            \E c \in Contributions(summary_data[k].year) :
                ConsistentSummary(summary_data[k], c, InstitutionsIn(summary_data[k].year))

\* Three institutions hold 50, 300 and 25 shares in 2020: the largest holder
\* is the second of them, the average of 125 is below its 300 shares, the
\* total is 375 and the three hold all of it.
C30_Witness ==
    /\ SummaryDone /\ Historical
    /\ Len(summary_data) = 1
    /\ holdings_df[1].institution_name = "Vanguard Group Inc"
    /\ summary_data[1].num_major_institutions = 3
    /\ summary_data[1].total_institutional_shares = FloatOfInt(375)
    /\ summary_data[1].largest_holder = "Berkshire Hathaway Inc"
    /\ summary_data[1].largest_holding_shares = FloatOfInt(300)
    /\ summary_data[1].avg_holding_size = FloatOfInt(125)
    /\ summary_data[1].concentration_top3 = FloatOfInt(100)

----------------------------------------------------------------------------
(* _parse_xml_info_table: repair of the entities before parsing *)

MaxChunks == 2      \* pieces a document text is put together from
MaxRepairs == 2     \* times the repair is applied to one text

\* (?:amp|lt|gt|quot|apos)
EntityNamesAmpOnly == <<<<"a","m","p">>>>

EntityNames == <<<<"a","m","p">>, <<"l","t">>, <<"g","t">>, <<"q","u","o","t">>, <<"a","p","o","s">>>>

\* (?:amp|lt|gt|quot|apos); matches s at position i
EntityFollows(s, i) ==
    \E k \in 1..Len(EntityNames) : OccursAt(EntityNames[k] \o <<";">>, s, i)

\* re.sub(r'&(?!(?:amp|lt|gt|quot|apos);)', '&amp;', xml_content): every
\* match is the single character '&', replaced where the lookahead does not
\* match the text that follows it.
RepairEntities(s) ==
    LET RECURSIVE Go(_)
        Go(i) == IF i > Len(s) THEN <<>>
                 ELSE (IF s[i] = "&" /\ ~EntityFollows(s, i + 1)
                       THEN <<"&","a","m","p",";">>
                       ELSE <<s[i]>>) \o Go(i + 1)
    IN Go(1)

\* Pieces of document text: bare ampersands, entity references of the five
\* predefined names, a numeric character reference, an upper-case name, a
\* reference with no ampersand or no semicolon, and plain characters.
XmlChunks ==
    {<<"&">>,
     <<"&","a","m","p",";">>,
     <<"&","l","t",";">>,
     <<"&","g","t",";">>,
     <<"&","q","u","o","t",";">>,
     <<"&","a","p","o","s",";">>,
     <<"&","#","3","8",";">>,
     <<"&","A","M","P",";">>,
     <<"a","m","p",";">>,
     <<"&","l","t">>,
     <<"T">>,
     <<";">>}

XmlTexts == {Concat(ss) : ss \in SeqsUpTo(XmlChunks, MaxChunks)}

\* xml_content = re.sub(...): the first statement of _parse_xml_info_table,
\* here applied again to its own result.
RepairXml ==
    /\ pc = "repair"
    /\ Len(repair_log) <= MaxRepairs
    /\ xml_content' = RepairEntities(xml_content)
    /\ repair_log' = Append(repair_log, RepairEntities(xml_content))
    /\ UNCHANGED <<entry, archive, pc, crawlVars, cascadeVars, runVars, netVars, summaryVars,
                   lookupVars, schedVars, trackVars>>

RepairNext == RepairXml

InitRepair ==
    /\ entry = "repair"
    /\ archive = "sparse"
    /\ pc = "repair"
    /\ InitCrawlIdle
    /\ InitCascadeIdle
    /\ InitRunIdle
    /\ InitSummaryIdle
    /\ InitNet
    /\ xml_content \in XmlTexts
    /\ repair_log = <<xml_content>>
    /\ InitLookupIdle
    /\ InitSchedulerIdle
    /\ InitTrackIdle

SpecRepair == InitRepair /\ [][RepairNext]_vars

----------------------------------------------------------------------------
(* Properties of the entity repair *)

\* The entity references XML predefines.
RecognizedReferences ==
    {<<"&","a","m","p",";">>,
     <<"&","l","t",";">>,
     <<"&","g","t",";">>,
     <<"&","q","u","o","t",";">>,
     <<"&","a","p","o","s",";">>}

\* An entity reference begins at position i of s; the '&' at position i of s
\* is bare.
BeginsReference(s, i) == \E ref \in RecognizedReferences : OccursAt(ref, s, i)
Bare(s, i) == s[i] = "&" /\ ~BeginsReference(s, i)

\* r is s with every bare '&' replaced by '&amp;' and every other character
\* kept: character i of s is found in r after the characters before it, each
\* bare '&' among them taking four places more.
Repaired(s, r) ==
    LET at(i) == i + 4 * Cardinality({j \in 1..(i - 1) : Bare(s, j)})
    IN /\ Len(r) = at(Len(s) + 1) - 1
       /\ \A i \in 1..Len(s) :
             IF Bare(s, i) THEN OccursAt(<<"&","a","m","p",";">>, r, at(i))
             ELSE r[at(i)] = s[i]

\* C24: the repair replaces every '&' that does not begin an entity reference
\* by '&amp;' and keeps every other character, so that every '&' of the
\* repaired text begins an entity reference; repairing a repaired text
\* changes nothing, and a text without a bare '&' is returned as it is.
C24_EntityRepair ==
    \A k \in 2..Len(repair_log) :
        LET s == repair_log[k - 1]
            r == repair_log[k]
        IN /\ Repaired(s, r)
           /\ \A i \in 1..Len(r) : r[i] = "&" => BeginsReference(r, i)
           /\ k >= 3 => r = s
           /\ (\A i \in 1..Len(s) : ~Bare(s, i)) => r = s

\* The text '&&lt;' was repaired to '&amp;&lt;' and repaired again.
C24_Witness ==
    /\ entry = "repair"
    /\ Len(repair_log) = 3
    /\ repair_log[1] = <<"&","&","l","t",";">>
    /\ repair_log[2] = <<"&","a","m","p",";","&","l","t",";">>
    /\ xml_content = <<"&","a","m","p",";","&","l","t",";">>

----------------------------------------------------------------------------
(* Lookups in the roster: ticker_to_cusip.get and _cusip_to_ticker *)

\* The tickers looked up: the tickers of the roster, each also in lower
\* case, followed by a space and without its last letter, and the empty
\* string.
TickerQueries ==
    UNION {{target_tickers[i],
            Lower(target_tickers[i]),
            target_tickers[i] \o <<" ">>,
            SubSeq(target_tickers[i], 1, Len(target_tickers[i]) - 1)} :
              i \in 1..Len(target_tickers)}
    \cup {<<>>}

\* The CUSIPs looked up: the CUSIPs of the roster, two of them also in lower
\* case, without the check digit and after a space, a CUSIP of no roster
\* security and the empty string.
CusipQueries ==
    {ticker_to_cusip[i][2] : i \in 1..Len(ticker_to_cusip)}
    \cup {"67066g104", "67066G10", " 67066G104", "88160r101", "88160R10",
          "000000000", ""}

\* 'cusip': self.ticker_to_cusip.get(ticker, '')
LookupCusip ==
    /\ pc = "lookup_cusip"
    /\ lookup_resolved' = [lookup_resolved EXCEPT !.cusip = CusipOf(lookup_query.ticker)]
    /\ pc' = "lookup_ticker"
    /\ UNCHANGED <<entry, archive, crawlVars, cascadeVars, runVars, netVars, summaryVars,
                   repairVars, schedVars, trackVars, lookup_query, lookup_back>>

\* ticker = self._cusip_to_ticker(cusip)
LookupTicker ==
    /\ pc = "lookup_ticker"
    /\ lookup_resolved' = [lookup_resolved EXCEPT !.ticker = CusipToTicker(lookup_query.cusip)]
    /\ pc' = "lookup_back"
    /\ UNCHANGED <<entry, archive, crawlVars, cascadeVars, runVars, netVars, summaryVars,
                   repairVars, schedVars, trackVars, lookup_query, lookup_back>>

\* The two lookups applied to what the other returned.
LookupBack ==
    /\ pc = "lookup_back"
    /\ lookup_back' = [ticker |-> CusipToTicker(lookup_resolved.cusip),
                       cusip  |-> CusipOf(lookup_resolved.ticker)]
    /\ pc' = "done"
    /\ UNCHANGED <<entry, archive, crawlVars, cascadeVars, runVars, netVars, summaryVars,
                   repairVars, schedVars, trackVars, lookup_query, lookup_resolved>>

LookupNext ==
    \/ LookupCusip
    \/ LookupTicker
    \/ LookupBack

InitLookup ==
    /\ entry = "lookup"
    /\ archive = "sparse"
    /\ pc = "lookup_cusip"
    /\ InitCrawlIdle
    /\ InitCascadeIdle
    /\ InitRunIdle
    /\ InitSummaryIdle
    /\ InitNet
    /\ InitRepairIdle
    /\ \E t \in TickerQueries, c \in CusipQueries :
          lookup_query = [ticker |-> t, cusip |-> c]
    /\ lookup_resolved = [ticker |-> <<>>, cusip |-> ""]
    /\ lookup_back = [ticker |-> <<>>, cusip |-> ""]
    /\ InitSchedulerIdle
    /\ InitTrackIdle

SpecLookup == InitLookup /\ [][LookupNext]_vars

----------------------------------------------------------------------------
(* Properties of the roster lookups *)

\* The six securities of the roster as (ticker, CUSIP) pairs.
Roster ==
    {<<NVDA, "67066G104">>, <<AMZN, "023135106">>, <<GOOGL, "02079K305">>,
     <<MSFT, "594918104">>, <<AAPL, "037833100">>, <<TSLA, "88160R101">>}
RosterTickers == {p[1] : p \in Roster}
RosterCusips == {p[2] : p \in Roster}

\* C22: the two lookups are inverse bijections on the roster and match
\* exactly: a roster ticker resolves to its CUSIP and that CUSIP back to the
\* ticker, a roster CUSIP resolves to its ticker and that ticker back to the
\* CUSIP; an identifier that is not literally a roster entry resolves to the
\* empty string, and no lookup fails.
C22_RosterBijection ==
    /\ Cardinality(RosterTickers) = 6 /\ Cardinality(RosterCusips) = 6
    /\ pc \in {"lookup_back", "done"} =>
          /\ lookup_query.ticker \in RosterTickers
                => <<lookup_query.ticker, lookup_resolved.cusip>> \in Roster
          /\ lookup_query.ticker \notin RosterTickers => lookup_resolved.cusip = ""
          /\ lookup_query.cusip \in RosterCusips
                => <<lookup_resolved.ticker, lookup_query.cusip>> \in Roster
          /\ lookup_query.cusip \notin RosterCusips => lookup_resolved.ticker = <<>>
    /\ pc = "done" =>
          /\ lookup_query.ticker \in RosterTickers
                => lookup_back.ticker = lookup_query.ticker
          /\ lookup_query.ticker \notin RosterTickers => lookup_back.ticker = <<>>
          /\ lookup_query.cusip \in RosterCusips
                => lookup_back.cusip = lookup_query.cusip
          /\ lookup_query.cusip \notin RosterCusips => lookup_back.cusip = ""

\* TSLA and the lower-case spelling of NVDA's CUSIP were looked up: TSLA
\* went to its CUSIP and back, the CUSIP was not resolved.
C22_Witness ==
    /\ entry = "lookup"
    /\ pc = "done"
    /\ lookup_query = [ticker |-> TSLA, cusip |-> "67066g104"]
    /\ lookup_resolved = [ticker |-> <<>>, cusip |-> "88160R101"]
    /\ lookup_back = [ticker |-> TSLA, cusip |-> ""]

----------------------------------------------------------------------------
(* scheduler.py: main, run_daily_scripts, run_weekly_scripts and
   run_fetch_script *)

\* A path is the sequence of its components: /app/NVDA/NVDAfetch.py is
\* <<"app", "NVDA", "NVDAfetch.py">> and / is <<>>.
ScriptEntry(path, name) == [path |-> path, name |-> name]

\* daily_scripts
DailyScripts ==
    <<ScriptEntry(<<"app", "NVDA", "NVDAfetch.py">>, "NVDA Data"),
      ScriptEntry(<<"app", "NVDA", "NVDAinsider.py">>, "NVDA Insider"),
      ScriptEntry(<<"app", "AMZN", "AMZNfetch.py">>, "AMZN Data"),
      ScriptEntry(<<"app", "AMZN", "AMZNinsider.py">>, "AMZN Insider"),
      ScriptEntry(<<"app", "GOOGL", "GOOGLfetch.py">>, "GOOGL Data"),
      ScriptEntry(<<"app", "GOOGL", "GOOGLinsider.py">>, "GOOGL Insider"),
      ScriptEntry(<<"app", "MSFT", "MSFTfetch.py">>, "MSFT Data"),
      ScriptEntry(<<"app", "MSFT", "MSFTinsider.py">>, "MSFT Insider"),
      ScriptEntry(<<"app", "QQQ", "qqqFetch.py">>, "QQQ Data"),
      ScriptEntry(<<"app", "SPY", "spyFetch.py">>, "SPY Data"),
      ScriptEntry(<<"app", "options_flow.py">>, "Options Flow & Dark Pool"),
      ScriptEntry(<<"app", "reddit_sentiment.py">>, "Reddit Sentiment")>>

\* weekly_scripts
WeeklyScripts ==
    <<ScriptEntry(<<"app", "vix_fetcher.py">>, "VIX & Volatility Data"),
      ScriptEntry(<<"app", "simplified_institutional.py">>, "Institutional Holdings"),
      ScriptEntry(<<"app", "economic_indicators.py">>, "Economic Indicators")>>

BatchScripts(b) == IF b = "weekly" THEN WeeklyScripts ELSE DailyScripts

\* os.path.dirname(script_path) of an absolute path
Dirname(path) == SubSeq(path, 1, Len(path) - 1)

RunsWeeklyOnFriday(d, h) == d = 4

\* if day_of_week == 4 and hour == 20
RunsWeekly(d, h) == d = 4 /\ h = 20

\* The clock readings, the sets of scripts present on disk, the sets of
\* scripts that may fail and the working directories the scheduler is
\* started with.
AllScriptPaths ==
    {DailyScripts[i].path : i \in 1..Len(DailyScripts)}
    \cup {WeeklyScripts[i].path : i \in 1..Len(WeeklyScripts)}
Clocks == {<<4, 20>>, <<4, 19>>, <<3, 20>>, <<0, 9>>}
ExistingSets ==
    {AllScriptPaths,
     AllScriptPaths \ {<<"app", "NVDA", "NVDAinsider.py">>, <<"app", "vix_fetcher.py">>}}
FlakySets ==
    {{},
     {<<"app", "NVDA", "NVDAfetch.py">>, <<"app", "options_flow.py">>,
      <<"app", "simplified_institutional.py">>},
     {<<"app", "SPY", "spyFetch.py">>, <<"app", "reddit_sentiment.py">>}}
StartDirs == {<<>>, <<"app">>}

\* The script the loop of the batch is at.
CurrentScript == BatchScripts(batch)[script_idx]

LogScript(outcome, before, after) ==
    sched_log' = Append(sched_log,
                        [batch |-> batch, path |-> CurrentScript.path,
                         outcome |-> outcome, cwd_before |-> before, cwd_after |-> after])

\* The loop of a batch is at a script that exists.
AtScript ==
    /\ pc = "sched_script"
    /\ script_idx <= Len(BatchScripts(batch))
    /\ CurrentScript.path \in existing

\* run_fetch_script up to the call of subprocess.run (lines 22-27):
\* original_cwd = os.getcwd(), os.chdir(script_dir); the child process then
\* runs, for up to 600 s, while the scheduler waits in the script's directory.
RunFetchEnter ==
    /\ AtScript
    /\ original_cwd' = cwd
    /\ cwd' = Dirname(CurrentScript.path)
    /\ pc' = "sched_child"
    /\ UNCHANGED <<entry, archive, crawlVars, cascadeVars, runVars, netVars, summaryVars,
                   repairVars, lookupVars, trackVars, day_of_week, hour, existing, flaky,
                   batch, script_idx, successful_runs, daily_success, sched_log>>

\* os.getcwd() or os.chdir(script_dir) raises: the handler logs and returns
\* False; the directory was not changed.
RunFetchChdirError ==
    /\ AtScript
    /\ CurrentScript.path \in flaky
    /\ LogScript("chdir_error", cwd, cwd)
    /\ script_idx' = script_idx + 1
    /\ UNCHANGED <<entry, archive, pc, crawlVars, cascadeVars, runVars, netVars, summaryVars,
                   repairVars, lookupVars, trackVars, day_of_week, hour, existing, flaky,
                   batch, successful_runs, daily_success, cwd, original_cwd>>

\* The end of run_fetch_script(script_path, stock_name) after the wait for
\* the child: it ends with the outcome given, leaves the process in directory
\* after and returns success to the loop of the batch.
RunFetchScript(outcome, after, success) ==
    /\ pc = "sched_child"
    /\ LogScript(outcome, original_cwd, after)
    /\ cwd' = after
    /\ successful_runs' = IF success THEN successful_runs + 1 ELSE successful_runs
    /\ script_idx' = script_idx + 1
    /\ pc' = "sched_script"
    /\ UNCHANGED <<entry, archive, crawlVars, cascadeVars, runVars, netVars, summaryVars,
                   repairVars, lookupVars, trackVars, day_of_week, hour, existing, flaky,
                   batch, daily_success, original_cwd>>

\* The child of the script being waited for may fail.
AtFlakyScript ==
    /\ pc = "sched_child"
    /\ CurrentScript.path \in flaky

\* subprocess.run returns with returncode 0: os.chdir(original_cwd), True.
RunFetchExitZero == RunFetchScript("exit0", original_cwd, TRUE)

\* subprocess.run returns with another returncode: os.chdir(original_cwd),
\* False.
RunFetchNonZero ==
    /\ AtFlakyScript
    /\ RunFetchScript("failed", original_cwd, FALSE)

\* subprocess.run raises TimeoutExpired after 600 s: the handler logs and
\* returns False; os.chdir(original_cwd) is not reached.
RunFetchTimeout ==
    /\ AtFlakyScript
    /\ RunFetchScript("timeout", cwd, FALSE)

\* subprocess.run raises another exception (the interpreter cannot be
\* started): the handler logs and returns False; os.chdir(original_cwd) is
\* not reached.
RunFetchLaunchError ==
    /\ AtFlakyScript
    /\ RunFetchScript("launch_error", cwd, FALSE)

\* subprocess.run returns, with any returncode, and os.chdir(original_cwd)
\* raises (the directory is gone): the handler at lines 43-45 logs and
\* returns False, the process stays in the script's directory.
RunFetchRestoreError ==
    /\ AtFlakyScript
    /\ RunFetchScript("restore_error", cwd, FALSE)

\* KeyboardInterrupt during the wait for the child: it is no Exception, no
\* handler of run_fetch_script, of the batch or of main catches it, and the
\* scheduler ends in the script's directory with the batch unfinished.
SchedInterrupt ==
    /\ pc = "sched_child"
    /\ pc' = "interrupted"
    /\ UNCHANGED <<entry, archive, crawlVars, cascadeVars, runVars, netVars, summaryVars,
                   utilityVars, trackVars>>

\* else: logging.error(f"Script not found: {script_path}")
SchedScriptMissing ==
    /\ pc = "sched_script"
    /\ script_idx <= Len(BatchScripts(batch))
    /\ CurrentScript.path \notin existing
    /\ LogScript("missing", cwd, cwd)
    /\ script_idx' = script_idx + 1
    /\ UNCHANGED <<entry, archive, pc, crawlVars, cascadeVars, runVars, netVars, summaryVars,
                   repairVars, lookupVars, trackVars, day_of_week, hour, existing, flaky,
                   batch, successful_runs, daily_success, cwd, original_cwd>>

\* main reads the clock; both branches call run_daily_scripts() first.
SchedMain ==
    /\ pc = "sched_main"
    /\ batch' = "daily"
    /\ script_idx' = 1
    /\ successful_runs' = 0
    /\ pc' = "sched_script"
    /\ UNCHANGED <<entry, archive, crawlVars, cascadeVars, runVars, netVars, summaryVars,
                   repairVars, lookupVars, trackVars, day_of_week, hour, existing, flaky,
                   daily_success, cwd, original_cwd, sched_log>>

\* run_daily_scripts returns; on Friday at 20 h main calls
\* run_weekly_scripts(), otherwise it is done.
SchedDailyReturn ==
    /\ pc = "sched_script"
    /\ batch = "daily"
    /\ script_idx > Len(DailyScripts)
    /\ daily_success' = successful_runs
    /\ IF RunsWeekly(day_of_week, hour)
       THEN /\ batch' = "weekly"
            /\ script_idx' = 1
            /\ successful_runs' = 0
            /\ UNCHANGED pc
       ELSE /\ pc' = "done"
            /\ UNCHANGED <<batch, script_idx, successful_runs>>
    /\ UNCHANGED <<entry, archive, crawlVars, cascadeVars, runVars, netVars, summaryVars,
                   repairVars, lookupVars, trackVars, day_of_week, hour, existing, flaky,
                   cwd, original_cwd, sched_log>>

\* run_weekly_scripts returns and main logs the totals.
SchedWeeklyReturn ==
    /\ pc = "sched_script"
    /\ batch = "weekly"
    /\ script_idx > Len(WeeklyScripts)
    /\ pc' = "done"
    /\ UNCHANGED <<entry, archive, crawlVars, cascadeVars, runVars, netVars, summaryVars,
                   utilityVars, trackVars>>

SchedulerNext ==
    \/ SchedMain
    \/ RunFetchEnter
    \/ RunFetchChdirError
    \/ RunFetchExitZero
    \/ RunFetchNonZero
    \/ RunFetchTimeout
    \/ RunFetchLaunchError
    \/ RunFetchRestoreError
    \/ SchedInterrupt
    \/ SchedScriptMissing
    \/ SchedDailyReturn
    \/ SchedWeeklyReturn

InitScheduler ==
    /\ entry = "scheduler"
    /\ archive = "sparse"
    /\ pc = "sched_main"
    /\ InitCrawlIdle
    /\ InitCascadeIdle
    /\ InitRunIdle
    /\ InitSummaryIdle
    /\ InitNet
    /\ InitRepairIdle
    /\ InitLookupIdle
    /\ InitTrackIdle
    /\ \E clock \in Clocks : day_of_week = clock[1] /\ hour = clock[2]
    /\ existing \in ExistingSets
    /\ flaky \in FlakySets
    /\ batch = "none"
    /\ script_idx = 1
    /\ successful_runs = 0
    /\ daily_success = 0
    /\ cwd \in StartDirs
    /\ original_cwd = <<>>
    /\ sched_log = <<>>

SpecScheduler == InitScheduler /\ [][SchedulerNext]_vars

----------------------------------------------------------------------------
(* Properties of the scheduler *)

\* The scripts one invocation has to reach, in order: the daily list, then
\* on Friday at 20 h the weekly list.
ExpectedScripts ==
    [i \in 1..Len(DailyScripts) |-> [batch |-> "daily", path |-> DailyScripts[i].path]]
    \o (IF day_of_week = 4 /\ hour = 20
        THEN [i \in 1..Len(WeeklyScripts) |->
                 [batch |-> "weekly", path |-> WeeklyScripts[i].path]]
        ELSE <<>>)

\* C26: every invocation of main runs the daily scripts, and the weekly
\* scripts exactly when it is Friday and the hour is 20, after the whole
\* daily batch; the scripts of a batch are reached one after the other in
\* list order, a script is launched exactly when its file exists, and a
\* script that is missing, fails or times out is followed by the next one:
\* the invocation ends only when every script was reached.
C26_SchedulerDispatch ==
    entry = "scheduler" =>
        /\ Len(sched_log) <= Len(ExpectedScripts)
        /\ \A i \in 1..Len(sched_log) :
              /\ sched_log[i].batch = ExpectedScripts[i].batch
              /\ sched_log[i].path = ExpectedScripts[i].path
              /\ (sched_log[i].outcome = "missing") = (sched_log[i].path \notin existing)
        /\ pc = "done" => Len(sched_log) = Len(ExpectedScripts)
        /\ batch = "weekly" => (day_of_week = 4 /\ hour = 20)

\* A Friday 20 h invocation ended after all fifteen scripts: the first
\* daily script timed out, the second was missing, a later daily script
\* failed and the last weekly script ran successfully.
C26_Witness ==
    /\ entry = "scheduler"
    /\ pc = "done"
    /\ day_of_week = 4 /\ hour = 20
    /\ Len(sched_log) = 15
    /\ sched_log[1].outcome = "timeout"
    /\ sched_log[2].outcome = "missing"
    /\ sched_log[11].outcome = "failed"
    /\ sched_log[12].outcome = "exit0"
    /\ sched_log[13].batch = "weekly"
    /\ sched_log[15].outcome = "exit0"
    /\ daily_success = 9

\* C27: every call of run_fetch_script returns with the process in the
\* working directory it was called in, whether the child exited with 0 or
\* with another code, timed out, or the launch raised another exception.
C27_WorkingDirectoryKept ==
    \A i \in 1..Len(sched_log) :
        sched_log[i].outcome # "missing" =>
            sched_log[i].cwd_after = sched_log[i].cwd_before

----------------------------------------------------------------------------
(* track_major_institutions: the historical run over the target tickers *)

\* The list fetch_and_save_institutional_data passes to
\* track_major_institutions, whatever its own tickers argument (line 450)
FixedTickers == <<NVDA, AMZN, GOOGL, MSFT>>

\* The target_tickers arguments of the runs followed.
TrackTickerLists == {<<NVDA, AAPL>>, <<MSFT, NVDA>>, FixedTickers}

\* A file of output_dir: absent, or the rows it holds.
NoFile == [exists |-> FALSE, rows |-> <<>>]

\* df.to_csv(file, index=False) opens the file for writing, which creates it
\* or empties it, writes the header and the rows of df in order, and closes
\* it. The content of a file is counted in whole rows: a file that holds
\* nothing, or the header only, or that is cut inside its first row, holds
\* no row.
OpenCsv == [exists |-> TRUE, rows |-> <<>>]

\* The next row of df reaches the file.
WriteRow(file, df) == [file EXCEPT !.rows = Append(@, df[Len(@) + 1])]

RECURSIVE WriteRows(_, _)
WriteRows(file, df) ==
    IF Len(file.rows) >= Len(df) THEN file ELSE WriteRows(WriteRow(file, df), df)

\* to_csv run to its end: the file holds the rows of df, in order.
WriteCsv(df) == WriteRows(OpenCsv, df)

\* The institutions and the filings per institution of the tracking file.
TrackedLimit == 5
TrackedFilingLimit == 10

\* datetime.now().strftime('%Y-%m-%d'): the day of the run, the first of
\* March of the year of the clock.
Today == <<now_year, 3, 1>>

\* major_institutions_tracking.csv before the run: absent, or the file an
\* earlier run wrote.
TrackingFiles ==
    {NoFile,
     WriteCsv(<<[timestamp        |-> <<2020, 12, 1>>,
                 institution_name |-> "Berkshire Hathaway Inc",
                 cik              |-> "0001067983",
                 filing_date      |-> <<2020, 11, 16>>,
                 accession_number |-> Accession("0001067983", 0, 1)]>>)}

\* The files of a ticker as an earlier run wrote them: one holding, found
\* in a filing of 2018, and its summary.
EarlierHoldings(ticker) ==
    <<WithProvenance([ticker        |-> ticker,
                      cusip         |-> CusipOf(ticker),
                      security_name |-> ticker,
                      shares        |-> FloatOfInt(1000),
                      market_value  |-> FloatOfInt(125000)],
                     MajorInstitutions[1],
                     [accession_number |-> Accession(MajorInstitutions[1][1], 2, 1),
                      filing_date      |-> <<2018, 11, 14>>,
                      filing_year      |-> 2018])>>
EarlierFiles(ticker) ==
    [holdings |-> WriteCsv(EarlierHoldings(ticker)),
     summary  |-> WriteCsv(CreateHistoricalSummary(EarlierHoldings(ticker), ticker))]
NoFiles == [holdings |-> NoFile, summary |-> NoFile]

\* for ticker in target_tickers:
\*     historical_holdings = self.get_historical_holdings_for_ticker(ticker, ...)
TrackStartTicker ==
    /\ pc = "track_ticker"
    /\ ticker_idx <= Len(track_tickers)
    /\ run_ticker' = track_tickers[ticker_idx]
    /\ inst_idx' = 1
    /\ filings_to_process' = <<>>
    /\ filing_idx' = 1
    /\ all_historical_holdings' = <<>>
    /\ visited' = <<>>
    /\ run_log' = <<>>
    /\ pc' = "run_institution"
    /\ UNCHANGED <<entry, archive, crawlVars, cascadeVars, netVars, summaryVars,
                   utilityVars, trackVars>>

\* if historical_holdings: is false: nothing is written for the ticker.
TrackNothingFound ==
    /\ pc = "track_save"
    /\ all_historical_holdings = <<>>
    /\ track_log' = Append(track_log, [ticker |-> run_ticker, historical_holdings |-> <<>>])
    /\ ticker_idx' = ticker_idx + 1
    /\ pc' = "track_ticker"
    /\ UNCHANGED <<entry, archive, crawlVars, cascadeVars, runVars, netVars, summaryVars,
                   utilityVars, datasetVars, track_tickers, disk, institution_idx, institution_data,
                   tracking_file, institution_df>>

\* holdings_df = pd.DataFrame(historical_holdings) sorted by filing date,
\* newest first; to_csv opens
\* {ticker}_historical_institutional_holdings.csv, which empties the file an
\* earlier run left.
TrackOpenHoldings ==
    /\ pc = "track_save"
    /\ all_historical_holdings # <<>>
    /\ \E df \in SortValues(all_historical_holdings) : holdings_df' = df
    /\ disk' = [disk EXCEPT ![run_ticker].holdings = OpenCsv]
    /\ pc' = "track_write_holdings"
    /\ UNCHANGED <<entry, archive, crawlVars, cascadeVars, runVars, netVars, summary_data,
                   utilityVars, datasetVars, track_tickers, ticker_idx, track_log,
                   institution_idx, institution_data, tracking_file, institution_df>>

\* to_csv writes the next row of holdings_df; after the last one the file is
\* closed.
TrackWriteHoldings ==
    /\ pc = "track_write_holdings"
    /\ disk' = [disk EXCEPT ![run_ticker].holdings = WriteRow(@, holdings_df)]
    /\ pc' = IF Len(disk[run_ticker].holdings.rows) + 1 = Len(holdings_df)
             THEN "track_summary" ELSE pc
    /\ UNCHANGED <<entry, archive, crawlVars, cascadeVars, runVars, netVars, summaryVars,
                   utilityVars, datasetVars, track_tickers, ticker_idx, track_log,
                   institution_idx, institution_data, tracking_file, institution_df>>

\* summary_data = self._create_historical_summary(holdings_df, ticker); if it
\* is not empty, to_csv opens {ticker}_institutional_summary_20yr.csv; if it
\* is empty the loop goes on to the next ticker.
TrackCreateSummary ==
    /\ pc = "track_summary"
    /\ LET summary == CreateHistoricalSummary(holdings_df, run_ticker)
       IN /\ summary_data' = summary
          /\ IF summary # <<>>
             THEN /\ disk' = [disk EXCEPT ![run_ticker].summary = OpenCsv]
                  /\ pc' = "track_write_summary"
                  /\ UNCHANGED <<track_log, ticker_idx>>
             ELSE /\ track_log' = Append(track_log,
                                         [ticker |-> run_ticker,
                                          historical_holdings |-> all_historical_holdings])
                  /\ ticker_idx' = ticker_idx + 1
                  /\ pc' = "track_ticker"
                  /\ UNCHANGED disk
    /\ UNCHANGED <<entry, archive, crawlVars, cascadeVars, runVars, netVars, holdings_df,
                   utilityVars, datasetVars, track_tickers, institution_idx,
                   institution_data, tracking_file, institution_df>>

\* to_csv writes the next row of the summary; after the last one the file is
\* closed and the loop goes on to the next ticker.
TrackWriteSummary ==
    /\ pc = "track_write_summary"
    /\ disk' = [disk EXCEPT ![run_ticker].summary = WriteRow(@, summary_data)]
    /\ IF Len(disk[run_ticker].summary.rows) + 1 = Len(summary_data)
       THEN /\ track_log' = Append(track_log,
                                   [ticker |-> run_ticker,
                                    historical_holdings |-> all_historical_holdings])
            /\ ticker_idx' = ticker_idx + 1
            /\ pc' = "track_ticker"
       ELSE UNCHANGED <<track_log, ticker_idx, pc>>
    /\ UNCHANGED <<entry, archive, crawlVars, cascadeVars, runVars, netVars, summaryVars,
                   utilityVars, datasetVars, track_tickers, institution_idx,
                   institution_data, tracking_file, institution_df>>

\* to_csv raises while it opens or writes one of the two files (OSError: the
\* directory is gone, the path is a directory, the disk is full): the
\* handler of the ticker prints the error and the loop goes on to the next
\* ticker (lines 539-541). The file stays as it was when the exception was
\* raised: untouched if the open raised, cut if a write raised. The open of
\* the holdings file follows sort_values; the open of the summary file
\* follows self._create_historical_summary, whose result is not empty.
TrackWriteRaises ==
    /\ \/ pc = "track_save" /\ all_historical_holdings # <<>>
       \/ pc = "track_summary" /\ CreateHistoricalSummary(holdings_df, run_ticker) # <<>>
       \/ pc \in {"track_write_holdings", "track_write_summary"}
    /\ IF pc = "track_save"
       THEN \E df \in SortValues(all_historical_holdings) : holdings_df' = df
       ELSE UNCHANGED holdings_df
    /\ summary_data' = IF pc = "track_summary"
                       THEN CreateHistoricalSummary(holdings_df, run_ticker)
                       ELSE summary_data
    /\ track_log' = Append(track_log, [ticker |-> run_ticker,
                                       historical_holdings |-> all_historical_holdings])
    /\ ticker_idx' = ticker_idx + 1
    /\ pc' = "track_ticker"
    /\ UNCHANGED <<entry, archive, crawlVars, cascadeVars, runVars, netVars,
                   utilityVars, datasetVars, track_tickers, disk, institution_idx,
                   institution_data, tracking_file, institution_df>>

\* The loop over the tickers is over:
\*     major_institutions = self.get_major_institutions()
\*     institution_data = []
TrackTickersDone ==
    /\ pc = "track_ticker"
    /\ ticker_idx > Len(track_tickers)
    /\ institution_idx' = 1
    /\ institution_data' = <<>>
    /\ pc' = "track_institution"
    /\ UNCHANGED <<entry, archive, crawlVars, cascadeVars, runVars, netVars, summaryVars,
                   utilityVars, datasetVars, track_tickers, ticker_idx, disk, track_log, tracking_file,
                   institution_df>>

\* list(major_institutions.items())[:5]
TrackedInstitutions == Take(MajorInstitutions, TrackedLimit)

\* get_13f_filings, status 200: the first `limit` entries of the recent list
\* whose form is 13F-HR, whatever their year.
Get13FFilings(filing_data, limit) ==
    Take(SelectSeq([i \in 1..Len(filing_data.form) |->
                       [accession_number |-> filing_data.accessionNumber[i],
                        filing_date      |-> filing_data.filingDate[i],
                        form             |-> filing_data.form[i]]],
                   LAMBDA f : f.form = "13F-HR"),
         limit)

\* One institution_record per filing; the timestamp is the day of the run.
InstitutionRecords(c, name, filings) ==
    [i \in 1..Len(filings) |->
        [timestamp        |-> Today,
         institution_name |-> name,
         cik              |-> c,
         filing_date      |-> filings[i].filing_date,
         accession_number |-> filings[i].accession_number]]

AtInstitution == pc = "track_institution" /\ institution_idx <= Len(TrackedInstitutions)

\* filings = self.get_13f_filings(cik, limit=10)
TrackInstitution(filings) ==
    /\ AtInstitution
    /\ Request
    /\ LET inst == TrackedInstitutions[institution_idx]
       IN institution_data' = institution_data \o InstitutionRecords(inst[1], inst[2], filings)
    /\ pc' = "track_throttle"
    /\ UNCHANGED <<entry, archive, crawlVars, cascadeVars, runVars, summaryVars, utilityVars, datasetVars,
                   track_tickers, ticker_idx, disk, track_log, institution_idx,
                   tracking_file, institution_df>>

\* The request is answered with status 200.
TrackInstitutionOk ==
    \E filing_data \in ServedLists(TrackedInstitutions[
                           IF AtInstitution THEN institution_idx ELSE 1][1], 0) :
        TrackInstitution(Get13FFilings(filing_data, TrackedFilingLimit))

\* The request is answered with another status, or the request or the
\* decoding raises and get_13f_filings catches it: it returns [].
TrackInstitutionFailed == TrackInstitution(<<>>)

\* time.sleep(1) after the records of the institution are appended.
TrackThrottle ==
    /\ pc = "track_throttle"
    /\ Sleep
    /\ institution_idx' = institution_idx + 1
    /\ pc' = "track_institution"
    /\ UNCHANGED <<entry, archive, crawlVars, cascadeVars, runVars, summaryVars, utilityVars, datasetVars,
                   track_tickers, ticker_idx, disk, track_log, institution_data,
                   tracking_file, institution_df>>

\* pd.read_csv(institution_file): a column of digit strings is read as
\* integers, so a CIK comes back without its leading zeros.
CikRead(c) ==
    CASE c = "0001067983" -> "1067983"
      [] c = "0001364742" -> "1364742"
      [] c = "0000950123" -> "950123"
      [] c = "0001418814" -> "1418814"
      [] c = "0000315066" -> "315066"
      [] OTHER -> c

ReadCsv(file) == [i \in 1..Len(file.rows) |-> [file.rows[i] EXCEPT !.cik = CikRead(@)]]

\* if institution_data: the records are to be written to
\* major_institutions_tracking.csv, after the rows the file already holds:
\* the file is read, then to_csv opens it, which empties it.
TrackSaveTracking ==
    /\ pc = "track_institution"
    /\ institution_idx > Len(TrackedInstitutions)
    /\ IF institution_data = <<>>
       THEN /\ pc' = "done"
            /\ UNCHANGED <<tracking_file, institution_df>>
       ELSE /\ institution_df' = IF tracking_file.exists
                                 THEN ReadCsv(tracking_file) \o institution_data
                                 ELSE institution_data
            /\ tracking_file' = OpenCsv
            /\ pc' = "track_write_tracking"
    /\ UNCHANGED <<entry, archive, crawlVars, cascadeVars, runVars, netVars, summaryVars,
                   utilityVars, datasetVars, track_tickers, ticker_idx, disk, track_log, institution_idx,
                   institution_data>>

\* to_csv writes the next row; after the last one the file is closed and
\* track_major_institutions returns.
TrackWriteTracking ==
    /\ pc = "track_write_tracking"
    /\ tracking_file' = WriteRow(tracking_file, institution_df)
    /\ pc' = IF Len(tracking_file.rows) + 1 = Len(institution_df) THEN "done" ELSE pc
    /\ UNCHANGED <<entry, archive, crawlVars, cascadeVars, runVars, netVars, summaryVars,
                   utilityVars, datasetVars, track_tickers, ticker_idx, disk, track_log, institution_idx,
                   institution_data, institution_df>>

\* The points of the loop over the tickers at which no filing is being
\* processed: the loop heads of the tickers, the institutions and the
\* filings, the crawl of an institution, and the writing of the files of a
\* ticker, which follows the last filing of that ticker and precedes the
\* first filing of the next one.
LoopPoints ==
    {"track_ticker", "run_institution", "crawl_index", "crawl_shard", "crawl_sleep",
     "run_select", "run_filing", "track_save", "track_write_holdings", "track_summary",
     "track_write_summary"}

\* The points of track_major_institutions after the loop over the tickers
TrackingPoints == {"track_institution", "track_throttle", "track_write_tracking"}

\* The process is stopped (it is killed, or interrupted from the keyboard:
\* KeyboardInterrupt is not an Exception and no handler of the run catches
\* it). Nothing more is written: a file that to_csv was writing holds the
\* rows that had reached it. A stop while a filing is being processed is
\* not followed: it leaves the files as the stop before that filing does.
TrackInterrupt ==
    /\ entry \in TrackEntries
    /\ pc \in LoopPoints \cup TrackingPoints
    /\ pc' = "interrupted"
    /\ UNCHANGED <<entry, archive, crawlVars, cascadeVars, runVars, netVars, summaryVars,
                   utilityVars, trackVars>>

----------------------------------------------------------------------------
(* get_institutional_ownership_yahoo, track_smart_money_flows *)

\* stock.institutional_holders as Yahoo Finance answers it: None, or a table
\* of the holders, largest first, with the columns Holder, Shares and
\* '% Out' (PctOut). A request that raises is answered None (line 374).
NoHolders == [present |-> FALSE, rows |-> <<>>]
HoldersTable(rows) == [present |-> TRUE, rows |-> rows]
SampleHolders ==
    <<[Holder |-> "Vanguard Group Inc", Shares |-> 300,
       PctOut |-> FloatDiv(FloatOfInt(1), FloatOfInt(8))],
      [Holder |-> "BlackRock Inc", Shares |-> 100,
       PctOut |-> FloatDiv(FloatOfInt(1), FloatOfInt(16))]>>
YahooAnswers == {NoHolders, HoldersTable(<<>>), HoldersTable(SampleHolders)}

\* datetime.now().strftime('%Y-%m-%d %H:%M:%S'): noon of the day of the run
Now == Today \o <<12, 0, 0>>

\* institutional_holders['Shares'].sum() of a column of whole numbers
RECURSIVE SharesSum(_)
SharesSum(rows) == IF rows = <<>> THEN 0 ELSE Head(rows).Shares + SharesSum(Tail(rows))

\* The quotient of two whole numbers of a column (numpy: no exception for a
\* zero divisor), times 100
NumpyPercentage(a, b) ==
    IF b # 0 THEN Percentage(FloatOfInt(a), FloatOfInt(b))
    ELSE IF a = 0 THEN NaN
    ELSE Infinity(a < 0)

\* None
NoHolder == "None"
TopSmartMoneyHolders == 10

\* smart_money_data of track_smart_money_flows for a table of holders
SmartMoneyData(ticker, rows) ==
    [timestamp             |-> Now,
     ticker                |-> ticker,
     total_institutions    |-> Len(rows),
     total_shares_held     |-> SharesSum(rows),
     top_10_concentration  |-> IF SharesSum(rows) > 0
                               THEN NumpyPercentage(SharesSum(Take(rows, TopSmartMoneyHolders)),
                                                    SharesSum(rows))
                               ELSE Zero,
     largest_holder        |-> IF rows # <<>> THEN rows[1].Holder ELSE NoHolder,
     largest_holder_shares |-> IF rows # <<>> THEN rows[1].Shares ELSE 0,
     largest_holder_pct    |-> IF rows # <<>> THEN rows[1].PctOut ELSE Zero]

\* The table get_institutional_ownership_yahoo returns: the columns
\* timestamp and ticker are added to the rows.
OwnershipRows(ticker, rows) ==
    [i \in 1..Len(rows) |->
        [Holder |-> rows[i].Holder, Shares |-> rows[i].Shares, PctOut |-> rows[i].PctOut,
         timestamp |-> Today, ticker |-> ticker]]

----------------------------------------------------------------------------
(* fetch_and_save_institutional_data *)

\* The tickers arguments of the calls followed: the list of main() and a
\* list of three.
MainTickers == <<NVDA, AMZN, GOOGL, MSFT>>
FetchTickerLists == {MainTickers, <<NVDA, AAPL, TSLA>>}

\* pd.read_csv(summary_file): an empty field (None was written) is read as
\* NaN; the other fields are read as they were written.
MissingValue == "nan"
ReadSummaryCsv(file) ==
    [i \in 1..Len(file.rows) |->
        [file.rows[i] EXCEPT !.largest_holder = IF @ = NoHolder THEN MissingValue ELSE @]]

\* institutional_summary.csv before the call: absent, or the file an
\* earlier run wrote.
EarlierSummaryFile ==
    WriteCsv(<<[timestamp             |-> <<2020, 12, 1, 12, 0, 0>>,
                ticker                |-> NVDA,
                total_institutions    |-> 0,
                total_shares_held     |-> 0,
                top_10_concentration  |-> Zero,
                largest_holder        |-> NoHolder,
                largest_holder_shares |-> 0,
                largest_holder_pct    |-> Zero]>>)

\* One iteration of the loop over tickers (lines 415-432):
\*     summary_data, detailed_holdings = self.track_smart_money_flows(ticker)
\* the summary is appended if there is one, the holders are written to
\* {ticker}_institutional_holders.csv if there are any, then time.sleep(1).
FetchTicker ==
    /\ pc = "fetch_ticker"
    /\ tickers_idx <= Len(ticker_list)
    /\ \E answer \in YahooAnswers :
          LET ticker == ticker_list[tickers_idx]
          IN /\ smart_money_summary' =
                   IF answer.present
                   THEN Append(smart_money_summary, SmartMoneyData(ticker, answer.rows))
                   ELSE smart_money_summary
             /\ output_dir' =
                   IF answer.present /\ answer.rows # <<>>
                   THEN [output_dir EXCEPT
                            !.holders[ticker] = WriteCsv(OwnershipRows(ticker, answer.rows))]
                   ELSE output_dir
    /\ Sleep
    /\ tickers_idx' = tickers_idx + 1
    /\ UNCHANGED <<entry, archive, pc, crawlVars, cascadeVars, runVars, summaryVars,
                   utilityVars, trackingVars, ticker_list, phase, major_idx, current_data,
                   timeline_data, institution_analysis>>

\* The loop is over: the summaries are written to institutional_summary.csv,
\* after the rows the file already holds, and
\*     self.track_major_institutions(output_dir, ['NVDA', 'AMZN', 'GOOGL', 'MSFT'])
FetchSaveSummary ==
    /\ pc = "fetch_ticker"
    /\ tickers_idx > Len(ticker_list)
    /\ output_dir' =
          IF smart_money_summary = <<>> THEN output_dir
          ELSE [output_dir EXCEPT
                   !.institutional_summary =
                       IF @.exists
                       THEN WriteCsv(ReadSummaryCsv(@) \o smart_money_summary)
                       ELSE WriteCsv(smart_money_summary)]
    /\ track_tickers' = FixedTickers
    /\ ticker_idx' = 1
    /\ pc' = "track_ticker"
    /\ UNCHANGED <<entry, archive, crawlVars, cascadeVars, runVars, netVars, summaryVars,
                   utilityVars, disk, track_log, institution_idx, institution_data,
                   tracking_file, institution_df, ticker_list, tickers_idx, phase, major_idx,
                   smart_money_summary, current_data, timeline_data, institution_analysis>>

TrackNext ==
    \/ FetchTicker
    \/ FetchSaveSummary
    \/ TrackStartTicker
    \/ TrackNothingFound
    \/ TrackOpenHoldings
    \/ TrackWriteHoldings
    \/ TrackCreateSummary
    \/ TrackWriteSummary
    \/ TrackWriteRaises
    \/ TrackTickersDone
    \/ TrackInstitutionOk
    \/ TrackInstitutionFailed
    \/ TrackThrottle
    \/ TrackSaveTracking
    \/ TrackWriteTracking
    \/ TrackInterrupt
    \/ RunNext

\* track_major_institutions is called with a list of target ticker_list while
\* the archive is thin, or fetch_and_save_institutional_data is called
\* while the archive is down, on an output directory that is empty or that
\* holds the files of an earlier run: major_institutions_tracking.csv and
\* the two files of every ticker.
InitTrack ==
    /\ InitCrawlIdle
    /\ InitCascadeIdle
    /\ InitRunIdle
    /\ InitSummaryIdle
    /\ InitNet
    /\ InitUtilityIdle
    /\ ticker_idx = 1
    /\ track_log = <<>>
    /\ institution_idx = 1
    /\ institution_data = <<>>
    /\ tracking_file \in TrackingFiles
    /\ institution_df = <<>>
    /\ \/ /\ entry = "track"
          /\ archive = "thin"
          /\ pc = "track_ticker"
          /\ track_tickers \in TrackTickerLists
          /\ disk = [t \in Range(track_tickers) |->
                        IF tracking_file.exists THEN EarlierFiles(t) ELSE NoFiles]
          /\ InitDatasetIdle
       \/ /\ entry = "fetch"
          /\ archive = "down"
          /\ pc = "fetch_ticker"
          /\ track_tickers = <<>>
          /\ disk = [t \in Range(FixedTickers) |->
                        IF tracking_file.exists THEN EarlierFiles(t) ELSE NoFiles]
          /\ ticker_list \in FetchTickerLists
          /\ tickers_idx = 1
          /\ phase = "none"
          /\ major_idx = 1
          /\ smart_money_summary = <<>>
          /\ current_data = <<>>
          /\ timeline_data = <<>>
          /\ institution_analysis = <<>>
          /\ output_dir =
                [institutional_summary |-> IF tracking_file.exists
                                           THEN EarlierSummaryFile ELSE NoFile,
                 holders |-> [t \in Range(ticker_list) |-> NoFile]]

SpecTrack == InitTrack /\ [][TrackNext]_vars

----------------------------------------------------------------------------
(* SimplifiedInstitutionalTracker: get_current_institutional_data *)

\* self.major_institutions of the simplified tracker, in insertion order
SimplifiedInstitutions ==
    <<<<"0001067983", "Berkshire Hathaway Inc">>,
      <<"0001364742", "Vanguard Group Inc">>,
      <<"0000950123", "BlackRock Inc">>,
      <<"0001418814", "State Street Corp">>,
      <<"0000315066", "Fidelity Management & Research">>>>

HistoryYearsBack == 20
TopCurrentHolders == 5

\* The entry of current_data for a table of holders that is not empty
CurrentSummary(ticker, rows) ==
    [ticker              |-> ticker,
     data_date           |-> Today,
     total_institutions  |-> Len(rows),
     total_shares        |-> SharesSum(rows),
     largest_holder      |-> rows[1].Holder,
     largest_shares      |-> rows[1].Shares,
     top_5_concentration |-> NumpyPercentage(SharesSum(Take(rows, TopCurrentHolders)),
                                             SharesSum(rows))]

datasetFixed == <<entry, archive, cascadeVars, runVars, utilityVars, trackingVars, ticker_list,
                  smart_money_summary>>

\* stock.institutional_holders raises: the handler of the iteration goes on
\* to the next ticker, past the time.sleep(0.5).
CurrentRaise ==
    /\ pc = "dataset_current"
    /\ tickers_idx <= Len(ticker_list)
    /\ tickers_idx' = tickers_idx + 1
    /\ UNCHANGED <<datasetFixed, pc, crawlVars, netVars, summaryVars, phase, major_idx,
                   current_data, timeline_data, institution_analysis, output_dir>>

\* Yahoo Finance answers: the summary of a table that is not empty is
\* appended, then time.sleep(0.5).
CurrentAnswer ==
    /\ pc = "dataset_current"
    /\ tickers_idx <= Len(ticker_list)
    /\ \E answer \in YahooAnswers :
          current_data' =
             IF answer.present /\ answer.rows # <<>>
             THEN Append(current_data, CurrentSummary(ticker_list[tickers_idx], answer.rows))
             ELSE current_data
    /\ Sleep
    /\ tickers_idx' = tickers_idx + 1
    /\ UNCHANGED <<datasetFixed, pc, crawlVars, summaryVars, phase, major_idx,
                   timeline_data, institution_analysis, output_dir>>

----------------------------------------------------------------------------
(* create_institutional_timeline *)

\* get_comprehensive_13f_history(cik, years_back=20) is called for the
\* institution at position major_idx.
StartHistory ==
    /\ cik' = SimplifiedInstitutions[major_idx][1]
    /\ tracker' = "SimplifiedInstitutionalTracker"
    /\ years_back' = HistoryYearsBack
    /\ files' = <<>>
    /\ file_idx' = 1
    /\ all_filings' = <<>>
    /\ crawl_result' = <<>>
    /\ index_log' = [outcome |-> "none", recent |-> NoData]
    /\ shard_log' = <<>>
    /\ pc' = "crawl_index"
    /\ UNCHANGED <<now_year, start_year, end_year>>

\* The timeline entries of the filings of one institution
TimelineEntries(inst, filings_history, ticker) ==
    [i \in 1..Len(filings_history) |->
        [filing_date      |-> filings_history[i].filing_date,
         filing_year      |-> filings_history[i].filing_year,
         filing_quarter   |-> filings_history[i].filing_quarter,
         institution_name |-> inst[2],
         institution_cik  |-> inst[1],
         accession_number |-> filings_history[i].accession_number,
         ticker           |-> ticker,
         form_type        |-> filings_history[i].form]]

\* Loop head of the institutions of the timeline
TimelineInstitution ==
    /\ pc = "timeline_institution"
    /\ major_idx <= Len(SimplifiedInstitutions)
    /\ StartHistory
    /\ UNCHANGED <<datasetFixed, netVars, summaryVars, tickers_idx, phase, major_idx,
                   current_data, timeline_data, institution_analysis, output_dir>>

\* The history returned: one entry per filing is appended, then time.sleep(1).
TimelineCollect ==
    /\ pc = "timeline_collect"
    /\ timeline_data' = timeline_data \o TimelineEntries(SimplifiedInstitutions[major_idx],
                                                         crawl_result, ticker_list[tickers_idx])
    /\ Sleep
    /\ major_idx' = major_idx + 1
    /\ pc' = "timeline_institution"
    /\ UNCHANGED <<datasetFixed, crawlVars, summaryVars, tickers_idx, phase, current_data,
                   institution_analysis, output_dir>>

\* return timeline_data, to the caller or to the loop of the dataset
TimelineReturn ==
    /\ pc = "timeline_institution"
    /\ major_idx > Len(SimplifiedInstitutions)
    /\ pc' = IF entry = "timeline" THEN "done" ELSE "dataset_timeline"
    /\ UNCHANGED <<datasetFixed, crawlVars, netVars, summaryVars, tickers_idx, phase,
                   major_idx, current_data, timeline_data, institution_analysis,
                   output_dir>>

----------------------------------------------------------------------------
(* _create_institution_analysis *)

HighConsistency == 4
MediumConsistency == 2

\* 'High' if avg_filings_per_year >= 4 else 'Medium' if ... >= 2 else 'Low'
FilingConsistency(avg_filings_per_year) ==
    IF ~FloatIsNaN(avg_filings_per_year)
          /\ ~DecLess(avg_filings_per_year, FloatOfInt(HighConsistency))
    THEN "High"
    ELSE IF ~FloatIsNaN(avg_filings_per_year)
               /\ ~DecLess(avg_filings_per_year, FloatOfInt(MediumConsistency))
    THEN "Medium"
    ELSE "Low"

\* min and max of the filing dates (ISO dates compare as strings)
FirstFiling(dates) == CHOOSE d \in dates : \A e \in dates : ~DateLess(e, d)
LastFiling(dates) == CHOOSE d \in dates : \A e \in dates : ~DateLess(d, e)

\* The entry of institution_analysis for a history that is not empty
InstitutionAnalysis(inst, filings_history) ==
    LET years_active == Cardinality({f.filing_year : f \in Range(filings_history)})
        avg_filings_per_year == IF years_active > 0
                                THEN FloatDiv(FloatOfInt(Len(filings_history)),
                                              FloatOfInt(years_active))
                                ELSE Zero
        dates == {f.filing_date : f \in Range(filings_history)}
    IN [institution_name     |-> inst[2],
        institution_cik      |-> inst[1],
        total_filings_20yr   |-> Len(filings_history),
        years_active         |-> years_active,
        avg_filings_per_year |-> avg_filings_per_year,
        first_filing_date    |-> FirstFiling(dates),
        last_filing_date     |-> LastFiling(dates),
        filing_consistency   |-> FilingConsistency(avg_filings_per_year)]

\* Loop head of the institutions of the analysis
AnalysisInstitution ==
    /\ pc = "analysis_institution"
    /\ major_idx <= Len(SimplifiedInstitutions)
    /\ StartHistory
    /\ UNCHANGED <<datasetFixed, netVars, summaryVars, tickers_idx, phase, major_idx,
                   current_data, timeline_data, institution_analysis, output_dir>>

\* The history returned: an entry is appended if it is not empty, then
\* time.sleep(0.5).
AnalysisCollect ==
    /\ pc = "analysis_collect"
    /\ institution_analysis' =
          IF crawl_result # <<>>
          THEN Append(institution_analysis,
                      InstitutionAnalysis(SimplifiedInstitutions[major_idx], crawl_result))
          ELSE institution_analysis
    /\ Sleep
    /\ major_idx' = major_idx + 1
    /\ pc' = "analysis_institution"
    /\ UNCHANGED <<datasetFixed, crawlVars, summaryVars, tickers_idx, phase, current_data,
                   timeline_data, output_dir>>

\* The loop is over: the analysis is written to institution_analysis_20yr.csv
\* if it is not empty, and the dataset is complete.
AnalysisSave ==
    /\ pc = "analysis_institution"
    /\ major_idx > Len(SimplifiedInstitutions)
    /\ output_dir' = IF institution_analysis # <<>>
                     THEN [output_dir EXCEPT !.analysis = WriteCsv(institution_analysis)]
                     ELSE output_dir
    /\ pc' = "done"
    /\ UNCHANGED <<datasetFixed, crawlVars, netVars, summaryVars, tickers_idx, phase,
                   major_idx, current_data, timeline_data, institution_analysis>>

----------------------------------------------------------------------------
(* create_comprehensive_institutional_dataset *)

\* get_current_institutional_data returned: current_data is written to
\* current_institutional_summary.csv if it is not empty, and the loop over
\* the tickers of the timelines starts.
DatasetSaveCurrent ==
    /\ pc = "dataset_current"
    /\ tickers_idx > Len(ticker_list)
    /\ output_dir' = IF current_data # <<>>
                     THEN [output_dir EXCEPT !.current_summary = WriteCsv(current_data)]
                     ELSE output_dir
    /\ tickers_idx' = 1
    /\ phase' = "timeline"
    /\ pc' = "dataset_ticker"
    /\ UNCHANGED <<datasetFixed, crawlVars, netVars, summaryVars, major_idx, current_data,
                   timeline_data, institution_analysis>>

\* timeline_data = self.create_institutional_timeline(ticker)
DatasetTimeline ==
    /\ pc = "dataset_ticker"
    /\ tickers_idx <= Len(ticker_list)
    /\ timeline_data' = <<>>
    /\ major_idx' = 1
    /\ pc' = "timeline_institution"
    /\ UNCHANGED <<datasetFixed, crawlVars, netVars, summaryVars, tickers_idx, phase,
                   current_data, institution_analysis, output_dir>>

\* if timeline_data: is false: nothing is written for the ticker.
DatasetNoTimeline ==
    /\ pc = "dataset_timeline"
    /\ timeline_data = <<>>
    /\ tickers_idx' = tickers_idx + 1
    /\ pc' = "dataset_ticker"
    /\ UNCHANGED <<datasetFixed, crawlVars, netVars, summaryVars, phase, major_idx,
                   current_data, timeline_data, institution_analysis, output_dir>>

\* The timeline, sorted by filing date, newest first, is written to
\* {ticker}_institutional_timeline_20yr.csv, and its yearly summary, if it is
\* not empty, to {ticker}_yearly_institutional_summary.csv.
DatasetSaveTimeline ==
    /\ pc = "dataset_timeline"
    /\ timeline_data # <<>>
    /\ \E timeline_df \in SortValues(timeline_data) :
          \E yearly_summary \in CreateYearlySummary(timeline_df, ticker_list[tickers_idx]) :
              /\ holdings_df' = timeline_df
              /\ summary_data' = yearly_summary
              /\ output_dir' =
                    [output_dir EXCEPT
                        !.timeline[ticker_list[tickers_idx]] = WriteCsv(timeline_df),
                        !.yearly[ticker_list[tickers_idx]] =
                            IF yearly_summary # <<>> THEN WriteCsv(yearly_summary) ELSE @]
    /\ tickers_idx' = tickers_idx + 1
    /\ pc' = "dataset_ticker"
    /\ UNCHANGED <<datasetFixed, crawlVars, netVars, phase, major_idx, current_data,
                   timeline_data, institution_analysis>>

\* The loop over the ticker_list is over: self._create_institution_analysis(output_dir)
DatasetAnalysis ==
    /\ pc = "dataset_ticker"
    /\ tickers_idx > Len(ticker_list)
    /\ phase' = "analysis"
    /\ institution_analysis' = <<>>
    /\ major_idx' = 1
    /\ pc' = "analysis_institution"
    /\ UNCHANGED <<datasetFixed, crawlVars, netVars, summaryVars, tickers_idx, current_data,
                   timeline_data, output_dir>>

\* The tickers arguments of the calls followed: the list of main() and a
\* list of two.
DatasetTickerLists == {<<NVDA>>, <<NVDA, AAPL>>}
\* The ticker arguments of create_institutional_timeline
TimelineTickers == {NVDA}

DatasetNext ==
    \/ CurrentRaise
    \/ CurrentAnswer
    \/ DatasetSaveCurrent
    \/ DatasetTimeline
    \/ TimelineInstitution
    \/ TimelineCollect
    \/ TimelineReturn
    \/ DatasetNoTimeline
    \/ DatasetSaveTimeline
    \/ DatasetAnalysis
    \/ AnalysisInstitution
    \/ AnalysisCollect
    \/ AnalysisSave
    \/ CrawlNext

\* create_comprehensive_institutional_dataset is called on an empty output
\* directory, or create_institutional_timeline is called, while the archive
\* is thin.
InitDataset ==
    /\ archive = "thin"
    /\ InitCrawlIdle
    /\ InitCascadeIdle
    /\ InitRunIdle
    /\ InitSummaryIdle
    /\ InitNet
    /\ InitUtilityIdle
    /\ track_tickers = <<>>
    /\ ticker_idx = 1
    /\ disk = <<>>
    /\ track_log = <<>>
    /\ institution_idx = 1
    /\ institution_data = <<>>
    /\ tracking_file = NoFile
    /\ institution_df = <<>>
    /\ tickers_idx = 1
    /\ major_idx = 1
    /\ smart_money_summary = <<>>
    /\ current_data = <<>>
    /\ timeline_data = <<>>
    /\ institution_analysis = <<>>
    /\ \/ /\ entry = "dataset"
          /\ pc = "dataset_current"
          /\ phase = "current"
          /\ ticker_list \in DatasetTickerLists
       \/ /\ entry = "timeline"
          /\ pc = "timeline_institution"
          /\ phase = "timeline"
          /\ \E ticker \in TimelineTickers : ticker_list = <<ticker>>
    /\ output_dir = [current_summary |-> NoFile,
                     timeline        |-> [t \in Range(ticker_list) |-> NoFile],
                     yearly          |-> [t \in Range(ticker_list) |-> NoFile],
                     analysis        |-> NoFile]

SpecDataset == InitDataset /\ [][DatasetNext]_vars

----------------------------------------------------------------------------
(* Properties of the output files *)

\* The run is between two filings, or was stopped there: the loop over the
\* tickers is not over and no filing is being processed.
BetweenFilings ==
    /\ entry \in TrackEntries
    /\ ticker_idx <= Len(track_tickers)
    /\ pc \in LoopPoints \cup {"interrupted"}

\* The holdings found for the k-th ticker in the filings processed so far:
\* what its run returned, or what the run in progress has collected.
FoundSoFar(k) ==
    IF k <= Len(track_log) THEN track_log[k].historical_holdings
    ELSE IF k = ticker_idx /\ run_ticker = track_tickers[k] THEN all_historical_holdings
    ELSE <<>>

\* Every record of b is in a, at least as often.
HoldsRecords(a, b) ==
    \A x \in Range(b) :
        Cardinality({i \in 1..Len(a) : a[i] = x})
           >= Cardinality({i \in 1..Len(b) : b[i] = x})

\* C23: whenever the run is between two filings, every file that exists in
\* the output directory is a complete record set of its ticker: a holdings
\* file is the file an earlier run left, untouched, or it holds every
\* holding found so far for its ticker, newest filing first; a summary file
\* is the file an earlier run left, untouched, or it goes with a holdings
\* file and has one row for each filing year of that file. No file is left
\* partially written.
C23_Interruptible ==
    BetweenFilings =>
        \A k \in 1..Len(track_tickers) :
            LET file    == disk[track_tickers[k]]
                earlier == EarlierFiles(track_tickers[k])
            IN /\ file.holdings.exists =>
                     \/ file.holdings = earlier.holdings
                     \/ /\ HoldsRecords(file.holdings.rows, FoundSoFar(k))
                        /\ \A i \in 1..(Len(file.holdings.rows) - 1) :
                              ~DateLess(file.holdings.rows[i].filing_date,
                                        file.holdings.rows[i + 1].filing_date)
               /\ file.summary.exists =>
                     \/ file.summary = earlier.summary
                     \/ /\ file.holdings.exists
                        /\ {file.summary.rows[i].year : i \in 1..Len(file.summary.rows)}
                              = {r.filing_year : r \in Range(file.holdings.rows)}
                        /\ Len(file.summary.rows)
                              = Cardinality({r.filing_year : r \in Range(file.holdings.rows)})

====
